---------------------------- MODULE Spec2Model ----------------------------
(***************************************************************************)
(* uc3m_money: transfer requests, account deposits and their validators.  *)
(*                                                                         *)
(* Text is modelled as a sequence of one-character strings, so that the    *)
(* regular expressions, str() and strptime() of the source are computed   *)
(* character by character.  A raised AccountManagementException is a       *)
(* result record with ok = FALSE and the message in err.                   *)
(***************************************************************************)
EXTENDS Integers, Sequences, FiniteSets, TLC

VARIABLES
    today,            \* calendar date returned by datetime.today()
    now,              \* clock reading of datetime.now(), in ticks
    transfers_json,   \* content of the file "transfers.json"
    deposit_files,    \* the deposit_<iban>_<seconds>.json files: name -> content
    accepted,         \* number of deposit_into_account calls that returned
    last,             \* the last completed call: its inputs and its outcome
    call,             \* per caller: the frame of a transfer_request in progress
    transactions_json, \* content of the file "transactions.json"
    balance_files     \* the balance_<iban>.json files: name -> content

vars == <<today, now, transfers_json, deposit_files, accepted, last, call,
          transactions_json, balance_files>>

-----------------------------------------------------------------------------
(* Bounds of the model *)

MaxTick == 2
MaxTransfers == 2
MaxDeposits == 2
MaxCalls == 1
TicksPerSecond == 2

-----------------------------------------------------------------------------
(* Characters and text *)

Digits == {"0", "1", "2", "3", "4", "5", "6", "7", "8", "9"}

Whitespace == {" ", "\t", "\n"}

IsDigit(c) == c \in Digits

DigitVal(c) ==
    CASE c = "0" -> 0 [] c = "1" -> 1 [] c = "2" -> 2 [] c = "3" -> 3
      [] c = "4" -> 4 [] c = "5" -> 5 [] c = "6" -> 6 [] c = "7" -> 7
      [] c = "8" -> 8 [] c = "9" -> 9

DigitChar(n) ==
    CASE n = 0 -> "0" [] n = 1 -> "1" [] n = 2 -> "2" [] n = 3 -> "3"
      [] n = 4 -> "4" [] n = 5 -> "5" [] n = 6 -> "6" [] n = 7 -> "7"
      [] n = 8 -> "8" [] n = 9 -> "9"

AllDigits(s) == \A i \in 1..Len(s) : IsDigit(s[i])

RECURSIVE StrToNat(_)
\* int() of a text of decimal digits
StrToNat(s) ==
    IF Len(s) = 0 THEN 0
    ELSE 10 * StrToNat(SubSeq(s, 1, Len(s) - 1)) + DigitVal(s[Len(s)])

RECURSIVE NatToStr(_)
\* str() of a non-negative int
NatToStr(n) ==
    IF n < 10 THEN <<DigitChar(n)>>
    ELSE NatToStr(n \div 10) \o <<DigitChar(n % 10)>>

\* positions of the character c in s
Positions(s, c) == {i \in 1..Len(s) : s[i] = c}

\* len(s.split()): the number of maximal runs of non-whitespace characters
WordCount(s) ==
    Cardinality({i \in 1..Len(s) :
        /\ s[i] \notin Whitespace
        /\ (i = 1 \/ s[i - 1] \in Whitespace)})

\* s.rsplit(".", maxsplit=1)[-1]: the text after the last ".", or all of s
AfterLastDot(s) ==
    LET dots == Positions(s, ".")
    IN  IF dots = {} THEN s
        ELSE LET p == CHOOSE i \in dots : \A j \in dots : j <= i
             IN  SubSeq(s, p + 1, Len(s))

-----------------------------------------------------------------------------
(* Results of the validators *)

AME == "AccountManagementException"

Ok(v) == [ok |-> TRUE, exc |-> "", err |-> "", val |-> v]

\* raise AccountManagementException(msg)
Raise(msg) == [ok |-> FALSE, exc |-> AME, err |-> msg, val |-> <<>>]

\* an exception of another class leaving the function
Throw(exc) == [ok |-> FALSE, exc |-> exc, err |-> "", val |-> <<>>]

-----------------------------------------------------------------------------
(* Calendar dates *)

Date(y, m, d) == [y |-> y, m |-> m, d |-> d]

IsLeap(y) == (y % 4 = 0 /\ y % 100 # 0) \/ y % 400 = 0

DaysInMonth(y, m) ==
    IF m = 2 THEN (IF IsLeap(y) THEN 29 ELSE 28)
    ELSE IF m \in {4, 6, 9, 11} THEN 30 ELSE 31

\* date.__lt__
DateLt(a, b) ==
    \/ a.y < b.y
    \/ a.y = b.y /\ a.m < b.m
    \/ a.y = b.y /\ a.m = b.m /\ a.d < b.d

\* the three fields of a text with exactly two "/", or <<>>
SlashFields(s) ==
    LET sl == Positions(s, "/")
    IN  IF Cardinality(sl) # 2 THEN <<>>
        ELSE LET p == CHOOSE i \in sl : \A j \in sl : i <= j
                 q == CHOOSE i \in sl : \A j \in sl : j <= i
             IN  <<SubSeq(s, 1, p - 1), SubSeq(s, p + 1, q - 1),
                   SubSeq(s, q + 1, Len(s))>>

\* strptime's %d: 3[0-1] | [1-2]\d | 0[1-9] | [1-9] | " "[1-9]
MatchesDay(f) ==
    \/ Len(f) = 2 /\ f[1] = "3" /\ f[2] \in {"0", "1"}
    \/ Len(f) = 2 /\ f[1] \in {"1", "2"} /\ IsDigit(f[2])
    \/ Len(f) = 2 /\ f[1] \in {"0", " "} /\ IsDigit(f[2]) /\ f[2] # "0"
    \/ Len(f) = 1 /\ IsDigit(f[1]) /\ f[1] # "0"

\* strptime's %m: 1[0-2] | 0[1-9] | [1-9]
MatchesMonth(f) ==
    \/ Len(f) = 2 /\ f[1] = "1" /\ f[2] \in {"0", "1", "2"}
    \/ Len(f) = 2 /\ f[1] = "0" /\ IsDigit(f[2]) /\ f[2] # "0"
    \/ Len(f) = 1 /\ IsDigit(f[1]) /\ f[1] # "0"

\* strptime's %Y: \d\d\d\d
MatchesYear(f) == Len(f) = 4 /\ AllDigits(f)

DayValue(f) == IF f[1] = " " THEN DigitVal(f[2]) ELSE StrToNat(f)

\* datetime.strptime(date_str, "%d/%m/%Y"): the date, or ValueError
strptime_dmy(date_str) ==
    LET f == SlashFields(date_str)
    IN  IF f = <<>> THEN Throw("ValueError")
        ELSE IF ~(MatchesDay(f[1]) /\ MatchesMonth(f[2]) /\ MatchesYear(f[3]))
        THEN Throw("ValueError")
        ELSE LET y == StrToNat(f[3])
                 m == StrToNat(f[2])
                 d == DayValue(f[1])
             IN  IF y < 1 \/ d > DaysInMonth(y, m) THEN Throw("ValueError")
                 ELSE Ok(Date(y, m, d))

-----------------------------------------------------------------------------
(* TransferRequest: the field validators *)

VALID_TRANSFER_TYPES == {"ORDINARY", "URGENT", "IMMEDIATE"}

\* as TransferRequest_validate_iban, matching the first 24 characters only
TransferRequest_validate_iban_prefix(iban) ==
    IF /\ Len(iban) >= 24
       /\ iban[1] = "E"
       /\ iban[2] = "S"
       /\ \A i \in 3..24 : IsDigit(iban[i])
    THEN [ok |-> TRUE, exc |-> "", err |-> "", val |-> iban]
    ELSE [ok |-> FALSE, exc |-> "AccountManagementException",
          err |-> "Invalid IBAN: Must start with 'ES' and contain 24 digits",
          val |-> <<>>]

\* re.fullmatch(r"ES\d{22}", iban)
TransferRequest_validate_iban(iban) ==
    IF /\ Len(iban) = 24
       /\ iban[1] = "E"
       /\ iban[2] = "S"
       /\ \A i \in 3..24 : IsDigit(iban[i])
    THEN Ok(iban)
    ELSE Raise("Invalid IBAN: Must start with 'ES' and contain 24 digits")

validate_concept(concept) ==
    IF ~(10 <= Len(concept) /\ Len(concept) <= 30) \/ WordCount(concept) < 2
    THEN Raise("Invalid concept: Must be 10-30 characters and contain at least two words")
    ELSE Ok(concept)

validate_transfer_type(transfer_type) ==
    IF transfer_type \notin VALID_TRANSFER_TYPES
    THEN Raise("Invalid transfer type: Must be 'ORDINARY', 'URGENT', or 'IMMEDIATE'")
    ELSE Ok(transfer_type)

\* as TransferRequest_validate_date, with "<=" for "<": today is refused
TransferRequest_validate_date_strict(date_str, current) ==
    LET p == strptime_dmy(date_str)
    IN  IF ~p.ok THEN Raise("Invalid date format: Must be 'DD/MM/YYYY'")
        ELSE IF ~(2025 <= p.val.y /\ p.val.y <= 2050)
        THEN Raise("Invalid year: Must be between 2025 and 2050")
        ELSE IF DateLt(p.val, current) \/ p.val = current
        THEN Raise("Invalid date: Cannot be in the past")
        ELSE Ok(date_str)

\* as TransferRequest_validate_date, with the upper year bound off by one
TransferRequest_validate_date_2051(date_str, current) ==
    LET p == strptime_dmy(date_str)
    IN  IF ~p.ok THEN Raise("Invalid date format: Must be 'DD/MM/YYYY'")
        ELSE IF ~(2025 <= p.val.y /\ p.val.y <= 2051)
        THEN Raise("Invalid year: Must be between 2025 and 2050")
        ELSE IF DateLt(p.val, current)
        THEN Raise("Invalid date: Cannot be in the past")
        ELSE Ok(date_str)

\* current is datetime.today().date()
TransferRequest_validate_date(date_str, current) ==
    LET p == strptime_dmy(date_str)
    IN  IF ~p.ok THEN Raise("Invalid date format: Must be 'DD/MM/YYYY'")
        ELSE IF ~(2025 <= p.val.y /\ p.val.y <= 2050)
        THEN Raise("Invalid year: Must be between 2025 and 2050")
        ELSE IF DateLt(p.val, current)
        THEN Raise("Invalid date: Cannot be in the past")
        ELSE Ok(date_str)

(* A transfer amount is a Python number: an int or a float.  Its value is *)
(* kept in thousandths (milli), which is exact for the amounts drawn here. *)
IntAmount(n) == [kind |-> "int", milli |-> 1000 * n]

FloatAmount(milli) == [kind |-> "float", milli |-> milli]

\* the digits after the point in repr(float): trailing zeros dropped, one kept
FractionDigits(frac) ==
    IF frac = 0 THEN <<"0">>
    ELSE IF frac % 100 = 0 THEN <<DigitChar(frac \div 100)>>
    ELSE IF frac % 10 = 0
    THEN <<DigitChar(frac \div 100), DigitChar((frac \div 10) % 10)>>
    ELSE <<DigitChar(frac \div 100), DigitChar((frac \div 10) % 10),
           DigitChar(frac % 10)>>

\* str(amount): "100" for the int 100, "100.0" for the float 100.0
str_amount(amount) ==
    IF amount.kind = "int" THEN NatToStr(amount.milli \div 1000)
    ELSE NatToStr(amount.milli \div 1000) \o <<".">>
         \o FractionDigits(amount.milli % 1000)

TransferRequest_validate_amount(amount) ==
    IF ~(10000 <= amount.milli /\ amount.milli <= 10000000)
    THEN Raise("Invalid amount: Must be between 10.00 and 10000.00")
    ELSE IF Len(AfterLastDot(str_amount(amount))) > 2
    THEN Raise("Invalid amount: Can have at most 2 decimal places")
    ELSE Ok(amount)

-----------------------------------------------------------------------------
(* TransferRequest: construction, serialisation and transfer code *)

\* the arguments of one transfer_request call
Args(from_iban, to_iban, concept, transfer_type, date, amount) ==
    [from_iban |-> from_iban, to_iban |-> to_iban, concept |-> concept,
     transfer_type |-> transfer_type, date |-> date, amount |-> amount]

\* as TransferRequest_init, with the validators in the reverse order
TransferRequest_init_reversed(a, current, time_stamp) ==
    LET v1 == TransferRequest_validate_iban(a.from_iban)
        v2 == TransferRequest_validate_iban(a.to_iban)
        v3 == validate_transfer_type(a.transfer_type)
        v4 == validate_concept(a.concept)
        v5 == TransferRequest_validate_date(a.date, current)
        v6 == TransferRequest_validate_amount(a.amount)
    IN  IF ~v6.ok THEN v6
        ELSE IF ~v5.ok THEN v5
        ELSE IF ~v4.ok THEN v4
        ELSE IF ~v3.ok THEN v3
        ELSE IF ~v2.ok THEN v2
        ELSE IF ~v1.ok THEN v1
        ELSE Ok([from_iban |-> v1.val, to_iban |-> v2.val,
                 transfer_type |-> v3.val, concept |-> v4.val,
                 transfer_date |-> v5.val, transfer_amount |-> v6.val,
                 time_stamp |-> time_stamp])

\* TransferRequest(...): the validators in the order of __init__, then the
\* timestamp; current and time_stamp are the clock readings of the call
TransferRequest_init(a, current, time_stamp) ==
    LET Validated(v1, v2, v3, v4, v5, v6) ==
            IF ~v1.ok THEN v1
            ELSE IF ~v2.ok THEN v2
            ELSE IF ~v3.ok THEN v3
            ELSE IF ~v4.ok THEN v4
            ELSE IF ~v5.ok THEN v5
            ELSE IF ~v6.ok THEN v6
            ELSE Ok([from_iban |-> v1.val, to_iban |-> v2.val,
                     transfer_type |-> v3.val, concept |-> v4.val,
                     transfer_date |-> v5.val, transfer_amount |-> v6.val,
                     time_stamp |-> time_stamp])
    IN  Validated(TransferRequest_validate_iban(a.from_iban),
                  TransferRequest_validate_iban(a.to_iban),
                  validate_transfer_type(a.transfer_type),
                  validate_concept(a.concept),
                  TransferRequest_validate_date(a.date, current),
                  TransferRequest_validate_amount(a.amount))

\* as TransferRequest_str, with the timestamp left out of the text
TransferRequest_str_no_time(t) ==
    <<"Transfer:", t.from_iban, t.to_iban, t.transfer_type, t.concept,
      t.transfer_date, str_amount(t.transfer_amount)>>

\* "Transfer:" + json.dumps(self.__dict__): the fields in attribute order,
\* the amount as json.dumps prints it (an int without, a float with a point)
TransferRequest_str(t) ==
    <<"Transfer:", t.from_iban, t.to_iban, t.transfer_type, t.concept,
      t.transfer_date, str_amount(t.transfer_amount), t.time_stamp>>

\* hashlib.md5(text).hexdigest(): the digest is taken as injective
md5_hexdigest(text) == [alg |-> "md5", of |-> text]

\* len() of a hexdigest: 128 bits or 256 bits, four bits per character
hexdigest_len(h) == IF h.alg = "md5" THEN 128 \div 4 ELSE 256 \div 4

transfer_code(t) == md5_hexdigest(TransferRequest_str(t))

\* to_json(), as json.dump stores it in the ledger file
to_json(t) ==
    [from_iban |-> t.from_iban, to_iban |-> t.to_iban,
     transfer_type |-> t.transfer_type,
     transfer_amount |-> str_amount(t.transfer_amount),
     transfer_concept |-> t.concept, transfer_date |-> t.transfer_date,
     time_stamp |-> t.time_stamp, transfer_code |-> transfer_code(t)]

-----------------------------------------------------------------------------
(* The file transfers.json *)

Missing == [kind |-> "missing", recs |-> <<>>]

\* a file whose content json.load rejects: empty (just truncated) or garbled
Unparsable == [kind |-> "unparsable", recs |-> <<>>]

\* a file holding a JSON list; an element is a record as to_json stores it,
\* or any other JSON value, kept as its document tree [type, text, items]
JsonList(recs) == [kind |-> "list", recs |-> recs]

\* a file holding a JSON value that is not a list
JsonValue(doc) == [kind |-> "value", recs |-> <<>>, doc |-> doc]

\* as load_transfers, with the content of the file never used
load_transfers_empty(file) == <<>>

\* json.load(f), with FileNotFoundError and JSONDecodeError giving []
load_transfers(file) == IF file.kind = "list" THEN file.recs ELSE <<>>

\* t["transfer_code"] of one element of the loaded list: a dict without the
\* key raises KeyError, a value that is no dict raises TypeError
subscript_code(elem) ==
    IF "type" \notin DOMAIN elem THEN Ok(elem.transfer_code)
    ELSE IF elem.type # "object" THEN Throw("TypeError")
    ELSE LET at == {i \in 1..Len(elem.items) : elem.items[i][1] = "transfer_code"}
         IN  IF at = {} THEN Throw("KeyError")
             ELSE Ok(elem.items[CHOOSE i \in at : \A j \in at : j <= i][2])

RECURSIVE any_code_equal(_, _, _)
\* any(...) from element i on: it stops at the first match and at the first
\* element whose subscript raises
any_code_equal(transfers, code, i) ==
    LET Subscripted(c) ==
            IF ~c.ok THEN c
            ELSE IF c.val = code THEN Ok(TRUE)
            ELSE any_code_equal(transfers, code, i + 1)
    IN  IF i > Len(transfers) THEN Ok(FALSE)
        ELSE Subscripted(subscript_code(transfers[i]))

\* as is_duplicate, with the check never finding a match
is_duplicate_never(transfers, t) == Ok(FALSE)

\* any(t["transfer_code"] == transfer.transfer_code for t in transfers)
is_duplicate(transfers, t) == any_code_equal(transfers, transfer_code(t), 1)

\* the exception of lines 239-242 when json.load gave a value that is no
\* list: None and a number are not iterable; a dict yields its keys and a str
\* its characters, which cannot be subscripted by a str; an empty dict or
\* str passes any() and has no append
no_list_error(doc) ==
    IF doc.type \in {"object", "string"}
       /\ Len(IF doc.type = "object" THEN doc.items ELSE doc.text) = 0
    THEN Throw("AttributeError")
    ELSE Throw("TypeError")

\* the outcome of a raise after the file was read: the file stays as it is
TransferFail(r, file) ==
    [ok |-> FALSE, exc |-> r.exc, err |-> r.err, ret |-> <<>>, file |-> file,
     io |-> <<"read">>]

\* as dump_transfers, with json.dump([transfer_data]): only the new record
dump_transfers_last_only(transfers) == JsonList(<<transfers[Len(transfers)]>>)

\* the file after open(file_name, "w") and json.dump(transfers, f)
dump_transfers(transfers) == JsonList(transfers)

\* as transfer_request, with the append and the write before the check
transfer_request_write_first(a, current, time_stamp, file) ==
    LET c == TransferRequest_init(a, current, time_stamp)
    IN  IF ~c.ok
        THEN [ok |-> FALSE, exc |-> c.exc, err |-> c.err, ret |-> <<>>,
              file |-> file, io |-> <<>>]
        ELSE IF file.kind = "value" THEN TransferFail(no_list_error(file.doc), file)
        ELSE LET transfers == load_transfers(file)
                 written == dump_transfers(Append(transfers, to_json(c.val)))
             IN  IF ~is_duplicate(transfers, c.val).ok
                 THEN TransferFail(is_duplicate(transfers, c.val), file)
                 ELSE IF is_duplicate(transfers, c.val).val
                 THEN [ok |-> FALSE, exc |-> AME,
                       err |-> "Duplicate transfer detected", ret |-> <<>>,
                       file |-> written, io |-> <<"read", "write">>]
                 ELSE [ok |-> TRUE, exc |-> "", err |-> "",
                       ret |-> transfer_code(c.val),
                       file |-> written, io |-> <<"read", "write">>]

\* as transfer_request, with the JSONDecodeError of json.load not caught
transfer_request_no_recovery(a, current, time_stamp, file) ==
    LET c == TransferRequest_init(a, current, time_stamp)
    IN  IF ~c.ok
        THEN [ok |-> FALSE, exc |-> c.exc, err |-> c.err, ret |-> <<>>,
              file |-> file, io |-> <<>>]
        ELSE IF file.kind = "unparsable"
        THEN TransferFail(Throw("JSONDecodeError"), file)
        ELSE IF file.kind = "value" THEN TransferFail(no_list_error(file.doc), file)
        ELSE LET transfers == load_transfers(file)
             IN  IF ~is_duplicate(transfers, c.val).ok
                 THEN TransferFail(is_duplicate(transfers, c.val), file)
                 ELSE IF is_duplicate(transfers, c.val).val
                 THEN TransferFail(Raise("Duplicate transfer detected"), file)
                 ELSE [ok |-> TRUE, exc |-> "", err |-> "",
                       ret |-> transfer_code(c.val),
                       file |-> dump_transfers(Append(transfers, to_json(c.val))),
                       io |-> <<"read", "write">>]

\* transfer_request run from start to end with no other writer: the outcome,
\* the file it leaves and the file operations it performed
transfer_request(a, current, time_stamp, file) ==
    LET \* lines 239-246, d being the outcome of the any() of line 239
        Checked(d, transfers, transfer) ==
            IF ~d.ok THEN TransferFail(d, file)
            ELSE IF d.val
            THEN TransferFail(Raise("Duplicate transfer detected"), file)
            ELSE [ok |-> TRUE, exc |-> "", err |-> "",
                  ret |-> transfer_code(transfer),
                  file |-> dump_transfers(Append(transfers, to_json(transfer))),
                  io |-> <<"read", "write">>]
        \* lines 230-246, c being the outcome of the constructor of line 229
        Constructed(c) ==
            IF ~c.ok
            THEN [ok |-> FALSE, exc |-> c.exc, err |-> c.err, ret |-> <<>>,
                  file |-> file, io |-> <<>>]
            ELSE IF file.kind = "value"
            THEN TransferFail(no_list_error(file.doc), file)
            ELSE Checked(is_duplicate(load_transfers(file), c.val),
                         load_transfers(file), c.val)
    IN  Constructed(TransferRequest_init(a, current, time_stamp))

-----------------------------------------------------------------------------
(* JSON documents, as json.load sees them.  An object keeps its pairs in  *)
(* document order, repeated keys included.                                 *)

JStr(text) == [type |-> "string", text |-> text, items |-> <<>>]

\* a number, with the digits of its literal
JNum(text) == [type |-> "number", text |-> text, items |-> <<>>]

JNull == [type |-> "null", text |-> <<>>, items |-> <<>>]

\* pairs: a sequence of <<key, value>>
JObj(pairs) == [type |-> "object", text |-> <<>>, items |-> pairs]

\* values: a sequence of <<"", value>>
JArr(values) == [type |-> "array", text |-> <<>>, items |-> values]

\* a text that is not JSON; items are the values completed before the error,
\* as <<"", value>>
NotJson(values) == [type |-> "invalid", text |-> <<>>, items |-> values]

RECURSIVE hook_keys(_)
\* the keys in the order object_pairs_hook receives them: an object is handed
\* over when it closes, so after the objects nested in its values
hook_keys(v) ==
    LET RECURSIVE inner(_)
        inner(i) ==
            IF i > Len(v.items) THEN <<>>
            ELSE hook_keys(v.items[i][2]) \o inner(i + 1)
        own == IF v.type = "object"
               THEN [i \in 1..Len(v.items) |-> v.items[i][1]]
               ELSE <<>>
    IN  inner(1) \o own

\* key_counts[key] > 1 for some key: key_counts is one dict for the whole load
HasRepeat(keys) ==
    \E i \in 1..Len(keys) : \E j \in 1..Len(keys) : i < j /\ keys[i] = keys[j]

\* as load_json_with_duplicate_check, with json.load's own handling of a
\* repeated key and no hook
load_json_without_check(doc) ==
    IF doc.type = "invalid" THEN Throw("JSONDecodeError") ELSE Ok(doc)

\* load_json_with_duplicate_check on the content of an existing file
load_json_with_duplicate_check(doc) ==
    IF HasRepeat(hook_keys(doc)) THEN Raise("Duplicate key found in JSON")
    ELSE IF doc.type = "invalid" THEN Throw("JSONDecodeError")
    ELSE Ok(doc)

\* bool(data)
Truthy(v) ==
    CASE v.type = "object" -> Len(v.items) > 0
      [] v.type = "array"  -> Len(v.items) > 0
      [] v.type = "string" -> Len(v.text) > 0
      [] v.type = "number" -> \E i \in 1..Len(v.text) : v.text[i] \in Digits \ {"0"}
      [] OTHER -> FALSE

Keys(obj) == {obj.items[i][1] : i \in 1..Len(obj.items)}

\* data[key], for a key that is present
Get(obj, key) ==
    obj.items[CHOOSE i \in 1..Len(obj.items) : obj.items[i][1] = key][2]

-----------------------------------------------------------------------------
(* account_deposit: validators *)

Sha256Tag == <<"S","H","A","-","2","5","6">>

DepositTag == <<"D","E","P","O","S","I","T">>

\* re.match(r'ES\d{22}', iban): a match of the first 24 characters
MatchesIbanPrefix(text) ==
    /\ Len(text) >= 24
    /\ text[1] = "E"
    /\ text[2] = "S"
    /\ \A i \in 3..24 : IsDigit(text[i])

\* iban.split(): the whitespace-separated parts
SplitParts(s) ==
    LET starts == {i \in 1..Len(s) :
                     s[i] \notin Whitespace /\ (i = 1 \/ s[i - 1] \in Whitespace)}
        stop(i) == CHOOSE j \in i..Len(s) :
                     /\ \A k \in i..j : s[k] \notin Whitespace
                     /\ (j = Len(s) \/ s[j + 1] \in Whitespace)
    IN  [parts |-> {SubSeq(s, i, stop(i)) : i \in starts},
         n |-> Cardinality(starts)]

\* validate_iban of account_deposit.py: True, False, or the duplicate error
validate_iban(v) ==
    IF v.type # "string" \/ ~MatchesIbanPrefix(v.text) THEN Ok(FALSE)
    ELSE IF Cardinality(SplitParts(v.text).parts) < SplitParts(v.text).n
    THEN Raise("Duplicate IBAN value detected")
    ELSE Ok(TRUE)

\* re.match(r'^EUR\s(\d+\.\d{2})$', amount) and float(group 1), in thousandths;
\* $ also matches before a final newline
validate_amount(v) ==
    IF v.type # "string" THEN Throw("TypeError")
    ELSE
      LET t == IF Len(v.text) > 0 /\ v.text[Len(v.text)] = "\n"
               THEN SubSeq(v.text, 1, Len(v.text) - 1) ELSE v.text
          n == Len(t)
      IN  IF /\ n >= 8
             /\ t[1] = "E" /\ t[2] = "U" /\ t[3] = "R"
             /\ t[4] \in Whitespace
             /\ t[n - 2] = "."
             /\ IsDigit(t[n - 1]) /\ IsDigit(t[n])
             /\ \A i \in 5..(n - 3) : IsDigit(t[i])
          THEN Ok(FloatAmount(1000 * StrToNat(SubSeq(t, 5, n - 3))
                              + 10 * StrToNat(SubSeq(t, n - 1, n))))
          ELSE Raise("Invalid amount format")

\* strptime's %H: 2[0-3] | [0-1]\d | \d
MatchesHour(f) ==
    \/ Len(f) = 2 /\ f[1] = "2" /\ f[2] \in {"0", "1", "2", "3"}
    \/ Len(f) = 2 /\ f[1] \in {"0", "1"} /\ IsDigit(f[2])
    \/ Len(f) = 1 /\ IsDigit(f[1])

\* strptime's %M: [0-5]\d | \d
MatchesMinute(f) ==
    \/ Len(f) = 2 /\ f[1] \in {"0", "1", "2", "3", "4", "5"} /\ IsDigit(f[2])
    \/ Len(f) = 1 /\ IsDigit(f[1])

\* strptime's %S: 6[0-1] | [0-5]\d | \d
MatchesSecond(f) ==
    \/ Len(f) = 2 /\ f[1] = "6" /\ f[2] \in {"0", "1"}
    \/ MatchesMinute(f)

\* datetime.strptime(text, "%Y-%m-%dT%H:%M:%SZ") succeeds; the literals T and Z
\* match in either case
ParsesIsoZ(s) ==
    LET dash == Positions(s, "-")
        tee == Positions(s, "T") \cup Positions(s, "t")
        colon == Positions(s, ":")
        zed == Positions(s, "Z") \cup Positions(s, "z")
        lo(S) == CHOOSE i \in S : \A j \in S : i <= j
        hi(S) == CHOOSE i \in S : \A j \in S : j <= i
    IN  /\ Cardinality(dash) = 2
        /\ Cardinality(tee) = 1
        /\ Cardinality(colon) = 2
        /\ zed = {Len(s)}
        /\ hi(dash) < lo(tee)
        /\ lo(tee) < lo(colon)
        /\ LET Y == SubSeq(s, 1, lo(dash) - 1)
               m == SubSeq(s, lo(dash) + 1, hi(dash) - 1)
               d == SubSeq(s, hi(dash) + 1, lo(tee) - 1)
               H == SubSeq(s, lo(tee) + 1, lo(colon) - 1)
               M == SubSeq(s, lo(colon) + 1, hi(colon) - 1)
               S == SubSeq(s, hi(colon) + 1, Len(s) - 1)
           IN  /\ MatchesYear(Y) /\ MatchesMonth(m) /\ MatchesDay(d)
               /\ MatchesHour(H) /\ MatchesMinute(M) /\ MatchesSecond(S)
               /\ StrToNat(Y) >= 1
               /\ DayValue(d) <= DaysInMonth(StrToNat(Y), StrToNat(m))
               /\ StrToNat(S) <= 59

\* validate_date of account_deposit.py
validate_date(v) ==
    IF v.type # "string" THEN Throw("TypeError")
    ELSE IF ParsesIsoZ(v.text) THEN Ok(v.text)
    ELSE Raise("Invalid deposit_date format")

-----------------------------------------------------------------------------
(* AccountDeposit *)

\* AccountDeposit(to_iban, deposit_amount), built at clock reading time_stamp
AccountDeposit(to_iban, deposit_amount, time_stamp) ==
    [alg |-> Sha256Tag, type |-> DepositTag, to_iban |-> to_iban,
     deposit_amount |-> deposit_amount, deposit_date |-> time_stamp]

\* as signature_string, with the deposit date left out of the text
signature_string_no_date(d) ==
    <<"{","a","l","g",":">> \o d.alg
    \o <<",","t","y","p",":">> \o d.type
    \o <<",","i","b","a","n",":">> \o d.to_iban
    \o <<",","a","m","o","u","n","t",":">> \o str_amount(d.deposit_amount)
    \o <<"}">>

\* __signature_string
signature_string(d) ==
    <<"{","a","l","g",":">> \o d.alg
    \o <<",","t","y","p",":">> \o d.type
    \o <<",","i","b","a","n",":">> \o d.to_iban
    \o <<",","a","m","o","u","n","t",":">> \o str_amount(d.deposit_amount)
    \o <<",","d","e","p","o","s","i","t","_","d","a","t","e",":">>
    \o NatToStr(d.deposit_date) \o <<"}">>

\* hashlib.sha256(text).hexdigest(): the digest is taken as injective
sha256_hexdigest(text) == [alg |-> "sha256", of |-> text]

deposit_signature(d) == sha256_hexdigest(signature_string(d))

\* AccountDeposit.to_json(), as json.dump stores it
deposit_to_json(d) ==
    [alg |-> d.alg, type |-> d.type, to_iban |-> d.to_iban,
     deposit_amount |-> str_amount(d.deposit_amount),
     deposit_date |-> d.deposit_date,
     deposit_signature |-> deposit_signature(d)]

\* int(deposit.deposit_date): the whole seconds of the timestamp
WholeSeconds(time_stamp) == time_stamp \div TicksPerSecond

\* f"deposit_{data['iban']}_{int(deposit.deposit_date)}.json"
output_file(iban, time_stamp) ==
    <<"deposit_", iban, "_", WholeSeconds(time_stamp), ".json">>

-----------------------------------------------------------------------------
(* deposit_into_account *)

NoFiles == [name \in {} |-> <<>>]

\* open(name, 'w') and json.dump(content, file): creates or replaces the file
write_file(files, name, content) ==
    [n \in DOMAIN files \cup {name} |-> IF n = name THEN content ELSE files[n]]

required_keys == {"alg", "typ", "iban", "amount", "deposit_date"}

\* as DepositFail, with the output file opened before the checks
DepositFail_leaves_file(r, files) ==
    [ok |-> FALSE, exc |-> r.exc, err |-> r.err, ret |-> <<>>,
     files |-> write_file(files, <<"deposit_", <<>>, "_", 0, ".json">>, <<>>)]

\* a raise before the output file is opened: the files stay as they are
DepositFail(r, files) ==
    [ok |-> FALSE, exc |-> r.exc, err |-> r.err, ret |-> <<>>, files |-> files]

\* as deposit_into_account, with the amount checked before the IBAN
deposit_into_account_amount_first(input, time_stamp, files) ==
    IF ~input.exists THEN DepositFail(Raise("The data file is not found"), files)
    ELSE
    LET loaded == load_json_with_duplicate_check(input.doc)
        data == loaded.val
    IN
    IF ~loaded.ok /\ loaded.exc = "JSONDecodeError"
    THEN DepositFail(Raise("The file is not in JSON format"), files)
    ELSE IF ~loaded.ok THEN DepositFail(loaded, files)
    ELSE IF ~Truthy(data) THEN DepositFail(Raise("Empty JSON data"), files)
    ELSE IF data.type # "object" THEN DepositFail(Throw("AttributeError"), files)
    ELSE IF required_keys \ Keys(data) # {}
    THEN DepositFail(Raise("Missing required keys"), files)
    ELSE IF Get(data, "alg") # JStr(Sha256Tag) \/ Get(data, "typ") # JStr(DepositTag)
    THEN DepositFail(Raise("Invalid alg or typ value"), files)
    ELSE
    LET vi == validate_iban(Get(data, "iban"))
        va == validate_amount(Get(data, "amount"))
        vd == validate_date(Get(data, "deposit_date"))
        iban == Get(data, "iban").text
        deposit == AccountDeposit(iban, va.val, time_stamp)
    IN
    IF ~va.ok THEN DepositFail(va, files)
    ELSE IF ~vi.ok THEN DepositFail(vi, files)
    ELSE IF ~vi.val THEN DepositFail(Raise("Invalid IBAN format"), files)
    ELSE IF ~vd.ok THEN DepositFail(vd, files)
    ELSE IF "/" \in {iban[i] : i \in 1..Len(iban)}
    THEN DepositFail(Throw("FileNotFoundError"), files)
    ELSE [ok |-> TRUE, exc |-> "", err |-> "",
          ret |-> deposit_signature(deposit),
          files |-> write_file(files, output_file(iban, time_stamp),
                               deposit_to_json(deposit))]

\* as deposit_into_account, with the timestamp of the record taken from the
\* year of the input's deposit_date
deposit_into_account_input_date(input, time_stamp, files) ==
    IF /\ input.exists
       /\ input.doc.type = "object"
       /\ "deposit_date" \in Keys(input.doc)
       /\ validate_date(Get(input.doc, "deposit_date")).ok
    THEN deposit_into_account_amount_first(
             input, StrToNat(SubSeq(Get(input.doc, "deposit_date").text, 1, 4)),
             files)
    ELSE deposit_into_account_amount_first(input, time_stamp, files)

\* input: [exists, doc], the input file; files: the deposit files on disk
deposit_into_account(input, time_stamp, files) ==
    LET \* lines 203-209, for the deposit object built at line 203
        Built(iban, deposit) ==
            IF "/" \in {iban[i] : i \in 1..Len(iban)}
            THEN DepositFail(Throw("FileNotFoundError"), files)
            ELSE [ok |-> TRUE, exc |-> "", err |-> "",
                  ret |-> deposit_signature(deposit),
                  files |-> write_file(files, output_file(iban, time_stamp),
                                       deposit_to_json(deposit))]
        \* lines 197-203, vi, va and vd being the outcomes of the validators
        Validated(vi, va, vd, iban) ==
            IF ~vi.ok THEN DepositFail(vi, files)
            ELSE IF ~vi.val THEN DepositFail(Raise("Invalid IBAN format"), files)
            ELSE IF ~va.ok THEN DepositFail(va, files)
            ELSE IF ~vd.ok THEN DepositFail(vd, files)
            ELSE Built(iban, AccountDeposit(iban, va.val, time_stamp))
        \* lines 186-201, for the data that line 182 loaded
        Loaded(data) ==
            IF ~Truthy(data) THEN DepositFail(Raise("Empty JSON data"), files)
            ELSE IF data.type # "object"
            THEN DepositFail(Throw("AttributeError"), files)
            ELSE IF required_keys \ Keys(data) # {}
            THEN DepositFail(Raise("Missing required keys"), files)
            ELSE IF \/ Get(data, "alg") # JStr(Sha256Tag)
                    \/ Get(data, "typ") # JStr(DepositTag)
            THEN DepositFail(Raise("Invalid alg or typ value"), files)
            ELSE Validated(validate_iban(Get(data, "iban")),
                           validate_amount(Get(data, "amount")),
                           validate_date(Get(data, "deposit_date")),
                           Get(data, "iban").text)
        \* lines 181-184, loaded being the outcome of line 182
        Read(loaded) ==
            IF ~loaded.ok /\ loaded.exc = "JSONDecodeError"
            THEN DepositFail(Raise("The file is not in JSON format"), files)
            ELSE IF ~loaded.ok THEN DepositFail(loaded, files)
            ELSE Loaded(loaded.val)
    IN  IF ~input.exists
        THEN DepositFail(Raise("The data file is not found"), files)
        ELSE Read(load_json_with_duplicate_check(input.doc))

-----------------------------------------------------------------------------
(* AccountManager *)

\* isinstance(iban, str) and bool(re.match(r"ES\d{22}", iban))
AccountManager_validate_iban(v) == v.type = "string" /\ MatchesIbanPrefix(v.text)

\* the characters of s.lower() that float() compares
LowerCase(c) ==
    CASE c = "E" -> "e" [] c = "I" -> "i" [] c = "N" -> "n" [] c = "F" -> "f"
      [] c = "A" -> "a" [] c = "T" -> "t" [] c = "Y" -> "y" [] OTHER -> c

\* s.strip()
Strip(s) ==
    LET kept == {i \in 1..Len(s) : s[i] \notin Whitespace}
        lo == CHOOSE i \in kept : \A j \in kept : i <= j
        hi == CHOOSE i \in kept : \A j \in kept : j <= i
    IN  IF kept = {} THEN <<>> ELSE SubSeq(s, lo, hi)

\* amount.replace(",", ".")
ReplaceComma(s) == [i \in 1..Len(s) |-> IF s[i] = "," THEN "." ELSE s[i]]

RECURSIVE Pow10(_)
Pow10(n) == IF n = 0 THEN 1 ELSE 10 * Pow10(n - 1)

RECURSIVE Finite(_, _)
\* the float num * 10^exp, written without trailing zeros in num; the amounts
\* drawn are exact in binary, so that sums of them are exact too
Finite(num, exp) ==
    IF num = 0 THEN [kind |-> "finite", num |-> 0, exp |-> 0]
    ELSE IF num % 10 = 0 THEN Finite(num \div 10, exp + 1)
    ELSE [kind |-> "finite", num |-> num, exp |-> exp]

Inf(negative) == [kind |-> IF negative THEN "-inf" ELSE "inf", num |-> 0, exp |-> 0]

NaN == [kind |-> "nan", num |-> 0, exp |-> 0]

\* a + b of two floats
float_add(a, b) ==
    IF a.kind = "nan" \/ b.kind = "nan" THEN NaN
    ELSE IF a.kind = "finite" /\ b.kind = "finite"
    THEN LET e == IF a.exp < b.exp THEN a.exp ELSE b.exp
         IN  Finite(a.num * Pow10(a.exp - e) + b.num * Pow10(b.exp - e), e)
    ELSE IF a.kind = "finite" THEN b
    ELSE IF b.kind = "finite" \/ a.kind = b.kind THEN a
    ELSE NaN

\* a run of digits, single underscores allowed between two digits
DigitPart(s) ==
    /\ Len(s) > 0
    /\ \A i \in 1..Len(s) :
          \/ IsDigit(s[i])
          \/ /\ s[i] = "_"
             /\ 1 < i /\ i < Len(s)
             /\ IsDigit(s[i - 1]) /\ IsDigit(s[i + 1])

\* the digits of float(): an integer part, an optional point with a fraction
\* part, and the text after the exponent letter (empty when there is none)
float_of_decimal(mant, expo, hasExp, negative) ==
    LET expSigned == Len(expo) > 0 /\ expo[1] \in {"+", "-"}
        expDigits == IF expSigned THEN Tail(expo) ELSE expo
        expNat == StrToNat(SelectSeq(expDigits, IsDigit))
        expValue == IF ~hasExp THEN 0
                    ELSE IF expSigned /\ expo[1] = "-" THEN 0 - expNat
                    ELSE expNat
        dots == Positions(mant, ".")
        d1 == CHOOSE i \in dots : TRUE
        ip == IF dots = {} THEN mant ELSE SubSeq(mant, 1, d1 - 1)
        fp == IF dots = {} THEN <<>> ELSE SubSeq(mant, d1 + 1, Len(mant))
        fpDigits == SelectSeq(fp, IsDigit)
        magnitude == StrToNat(SelectSeq(ip, IsDigit) \o fpDigits)
    IN  IF /\ Cardinality(dots) <= 1
           /\ Len(ip) + Len(fp) > 0
           /\ Len(ip) = 0 \/ DigitPart(ip)
           /\ Len(fp) = 0 \/ DigitPart(fp)
           /\ ~hasExp \/ DigitPart(expDigits)
        THEN Ok(Finite(IF negative THEN 0 - magnitude ELSE magnitude,
                       expValue - Len(fpDigits)))
        ELSE Throw("ValueError")

\* float() of the text after the sign: inf, infinity, nan in any case, or
\* digits split at the first exponent letter
float_of_unsigned(body, negative) ==
    LET word == [i \in 1..Len(body) |-> LowerCase(body[i])]
        es == Positions(word, "e")
        e1 == CHOOSE i \in es : \A j \in es : i <= j
    IN  IF word \in {<<"i","n","f">>, <<"i","n","f","i","n","i","t","y">>}
        THEN Ok(Inf(negative))
        ELSE IF word = <<"n","a","n">> THEN Ok(NaN)
        ELSE IF es = {} THEN float_of_decimal(body, <<>>, FALSE, negative)
        ELSE float_of_decimal(SubSeq(body, 1, e1 - 1),
                              SubSeq(body, e1 + 1, Len(body)), TRUE, negative)

\* float(text): surrounding whitespace, then an optional sign
float_of_str(text) ==
    LET stripped == Strip(text)
    IN  IF Len(stripped) > 0 /\ stripped[1] \in {"+", "-"}
        THEN float_of_unsigned(Tail(stripped), stripped[1] = "-")
        ELSE float_of_unsigned(stripped, FALSE)

\* key in transaction
HasKey(obj, key) == \E i \in 1..Len(obj.items) : obj.items[i][1] = key

\* transaction[key] after json.load: the value of the last member of that key
GetLast(obj, key) ==
    LET at == {i \in 1..Len(obj.items) : obj.items[i][1] = key}
    IN  obj.items[CHOOSE i \in at : \A j \in at : j <= i][2]

\* as is_counted, counting the entries of every IBAN
is_counted_any_iban(transaction, iban_number) ==
    /\ transaction.type = "object"
    /\ HasKey(transaction, "IBAN")
    /\ HasKey(transaction, "amount")

\* the entry is not skipped and its IBAN is the one asked for
is_counted(transaction, iban_number) ==
    /\ transaction.type = "object"
    /\ HasKey(transaction, "IBAN")
    /\ HasKey(transaction, "amount")
    /\ GetLast(transaction, "IBAN") = iban_number

\* as amount_of, with an amount that is not a number taken as nothing
amount_of_lenient(transaction) ==
    LET amount == GetLast(transaction, "amount")
        parsed == IF amount.type = "string"
                  THEN float_of_str(ReplaceComma(amount.text))
                  ELSE [ok |-> FALSE]
    IN  IF parsed.ok THEN parsed
        ELSE [ok |-> TRUE, exc |-> "", err |-> "", val |-> Finite(0, 0)]

\* float(transaction["amount"].replace(",", ".")) and the except clause
amount_of(transaction) ==
    LET Parsed(f) ==
            IF f.ok THEN f
            ELSE Raise("Invalid amount format in transactions file")
        Held(amount) ==
            IF amount.type # "string" THEN Throw("AttributeError")
            ELSE Parsed(float_of_str(ReplaceComma(amount.text)))
    IN  Held(GetLast(transaction, "amount"))

RECURSIVE balance_loop_nonzero(_, _, _, _, _)
\* as balance_loop, with found set by an amount other than zero only
balance_loop_nonzero(transactions, iban_number, i, balance, found) ==
    IF i > Len(transactions)
    THEN [ok |-> TRUE, exc |-> "", err |-> "", balance |-> balance, found |-> found]
    ELSE IF ~is_counted(transactions[i][2], iban_number)
    THEN balance_loop_nonzero(transactions, iban_number, i + 1, balance, found)
    ELSE IF ~amount_of(transactions[i][2]).ok
    THEN [ok |-> FALSE, exc |-> amount_of(transactions[i][2]).exc,
          err |-> amount_of(transactions[i][2]).err,
          balance |-> balance, found |-> found]
    ELSE balance_loop_nonzero(transactions, iban_number, i + 1,
                              float_add(balance, amount_of(transactions[i][2]).val),
                              found \/ amount_of(transactions[i][2]).val.num # 0)

RECURSIVE balance_loop(_, _, _, _, _)
\* the for loop from entry i on, with the balance and the flag so far
balance_loop(transactions, iban_number, i, balance, found) ==
    LET \* lines 78-84, amount being the outcome of line 79
        Counted(amount) ==
            IF ~amount.ok
            THEN [ok |-> FALSE, exc |-> amount.exc, err |-> amount.err,
                  balance |-> balance, found |-> found]
            ELSE balance_loop(transactions, iban_number, i + 1,
                              float_add(balance, amount.val), TRUE)
    IN  IF i > Len(transactions)
        THEN [ok |-> TRUE, exc |-> "", err |-> "", balance |-> balance,
              found |-> found]
        ELSE IF ~is_counted(transactions[i][2], iban_number)
        THEN balance_loop(transactions, iban_number, i + 1, balance, found)
        ELSE Counted(amount_of(transactions[i][2]))

\* f"balance_{iban_number}.json"
balance_file(iban_number) == <<"balance_", iban_number.text, ".json">>

balance_record(iban_number, time_stamp, balance) ==
    [IBAN |-> iban_number.text, timestamp |-> time_stamp, balance |-> balance]

\* a raise before the snapshot is opened: the files stay as they are
BalanceFail(r, files) ==
    [ok |-> FALSE, exc |-> r.exc, err |-> r.err, ret |-> FALSE, files |-> files]

\* as calculate_balance, with the sum started from the balance of the
\* snapshot an earlier call left
calculate_balance_from_snapshot(iban_number, time_stamp, file, files) ==
    IF ~AccountManager_validate_iban(iban_number)
    THEN BalanceFail(Raise("Invalid IBAN format"), files)
    ELSE IF ~file.exists
    THEN BalanceFail(Raise("Transactions file not found"), files)
    ELSE IF file.doc.type = "invalid"
    THEN BalanceFail(Raise("Error decoding JSON file"), files)
    ELSE IF file.doc.type # "array"
    THEN BalanceFail(Raise("Invalid transactions data format"), files)
    ELSE
    LET start == IF balance_file(iban_number) \in DOMAIN files
                 THEN files[balance_file(iban_number)].balance
                 ELSE Finite(0, 0)
        loop == balance_loop(file.doc.items, iban_number, 1, start, FALSE)
    IN
    IF ~loop.ok THEN BalanceFail(loop, files)
    ELSE IF ~loop.found
    THEN BalanceFail(Raise("IBAN not found in transactions file"), files)
    ELSE IF "/" \in {iban_number.text[i] : i \in 1..Len(iban_number.text)}
    THEN BalanceFail(Throw("FileNotFoundError"), files)
    ELSE [ok |-> TRUE, exc |-> "", err |-> "", ret |-> TRUE,
          files |-> write_file(files, balance_file(iban_number),
                               balance_record(iban_number, time_stamp, loop.balance))]

\* calculate_balance(iban_number) at clock reading time_stamp; file: the
\* transactions file [exists, doc]; files: the balance files on disk
calculate_balance(iban_number, time_stamp, file, files) ==
    IF ~AccountManager_validate_iban(iban_number)
    THEN BalanceFail(Raise("Invalid IBAN format"), files)
    ELSE IF ~file.exists
    THEN BalanceFail(Raise("Transactions file not found"), files)
    ELSE IF file.doc.type = "invalid"
    THEN BalanceFail(Raise("Error decoding JSON file"), files)
    ELSE IF file.doc.type # "array"
    THEN BalanceFail(Raise("Invalid transactions data format"), files)
    ELSE
    LET \* lines 86-101, loop being the outcome of the for loop
        Summed(loop) ==
            IF ~loop.ok THEN BalanceFail(loop, files)
            ELSE IF ~loop.found
            THEN BalanceFail(Raise("IBAN not found in transactions file"), files)
            ELSE IF "/" \in {iban_number.text[i] : i \in 1..Len(iban_number.text)}
            THEN BalanceFail(Throw("FileNotFoundError"), files)
            ELSE [ok |-> TRUE, exc |-> "", err |-> "", ret |-> TRUE,
                  files |-> write_file(files, balance_file(iban_number),
                                       balance_record(iban_number, time_stamp,
                                                      loop.balance))]
    IN  Summed(balance_loop(file.doc.items, iban_number, 1, Finite(0, 0), FALSE))

-----------------------------------------------------------------------------
(* The inputs drawn by the model *)

IbanA == <<"E","S","9","1","2","1","0","0","0","4","1","8","4","5","0","2","0","0","0","5","1","3","3","2">>

IbanB == <<"E","S","7","9","2","1","0","0","0","8","1","3","4","5","0","2","0","0","0","5","6","7","8","9">>

HouseRent == <<"H","o","u","s","e"," ","R","e","n","t">>

TravelBooking == <<"T","r","a","v","e","l"," ","B","o","o","k","i","n","g">>

Text_7_7_2025 == <<"7","/","7","/","2","0","2","5">>

Text_31_12_2050 == <<"3","1","/","1","2","/","2","0","5","0">>

Text_31_12_2024 == <<"3","1","/","1","2","/","2","0","2","4">>

Text_1_1_2051 == <<"1","/","1","/","2","0","5","1">>

\* test_valid_transfer: 500.75 from IbanA to IbanB on 7/7/2025
RentArgs ==
    Args(IbanA, IbanB, HouseRent, "ORDINARY", Text_7_7_2025, FloatAmount(500750))

\* test_transfer_last_valid_date: 4300.00 on 31/12/2050
TripArgs ==
    Args(IbanA, IbanB, TravelBooking, "IMMEDIATE", Text_31_12_2050,
         FloatAmount(4300000))

PastDateArgs == [TripArgs EXCEPT !.date = Text_31_12_2024]

InvalidArgs ==
    { [RentArgs EXCEPT !.from_iban = <<"F", "R">> \o SubSeq(IbanA, 3, 24)],
      [RentArgs EXCEPT !.to_iban = SubSeq(IbanB, 1, 23)],
      [RentArgs EXCEPT !.transfer_type = "FAST"],
      [RentArgs EXCEPT !.concept = <<"R", "e", "n", "t">>],
      PastDateArgs,
      [TripArgs EXCEPT !.amount = FloatAmount(9990)],
      [TripArgs EXCEPT !.amount = FloatAmount(10001)] }

Requests == {RentArgs, TripArgs} \cup InvalidArgs

\* the dates the clock starts at
MainTodays == {Date(2025, 7, 6), Date(2026, 11, 2)}

\* the requests the interleaved callers draw
ConcurrentRequests == {RentArgs, TripArgs, PastDateArgs}

\* the concurrent callers of transfer_request
Callers == {"c1", "c2"}

-----------------------------------------------------------------------------
(* State *)

\* the file "transactions.json" is not on disk
NoTransactions == [exists |-> FALSE, doc |-> JNull]

NoCall == [op |-> "none"]

IdleFrame ==
    [pc |-> "idle", args |-> <<>>, transfer |-> <<>>, transfers |-> <<>>,
     out |-> <<>>, n |-> 0]

Init ==
    /\ today \in MainTodays
    /\ now = 0
    /\ transfers_json \in {Missing, JsonList(<<>>)}
    /\ deposit_files = NoFiles
    /\ accepted = 0
    /\ last = NoCall
    /\ call = [p \in Callers |-> IdleFrame]
    /\ transactions_json = NoTransactions
    /\ balance_files = NoFiles

\* date + timedelta(days=1)
NextDay(d) ==
    IF d.d < DaysInMonth(d.y, d.m) THEN Date(d.y, d.m, d.d + 1)
    ELSE IF d.m < 12 THEN Date(d.y, d.m + 1, 1)
    ELSE Date(d.y + 1, 1, 1)

\* the clock advances within the day
Tick ==
    /\ now < MaxTick
    /\ now' = now + 1
    /\ UNCHANGED <<today, transfers_json, deposit_files, accepted, last, call>>
    /\ UNCHANGED <<transactions_json, balance_files>>

\* the clock advances past midnight
TickMidnight ==
    /\ now < MaxTick
    /\ now' = now + 1
    /\ today' = NextDay(today)
    /\ UNCHANGED <<transfers_json, deposit_files, accepted, last, call>>
    /\ UNCHANGED <<transactions_json, balance_files>>

-----------------------------------------------------------------------------
(* transfer_request, one call at a time *)

TransferRequestCall(a) ==
    LET Returned(r) ==
            /\ transfers_json' = r.file
            /\ last' = [op |-> "transfer_request", args |-> a, today |-> today,
                        now |-> now, before |-> transfers_json,
                        out |-> [ok |-> r.ok, exc |-> r.exc, err |-> r.err,
                                 ret |-> r.ret, io |-> r.io]]
    IN  /\ Len(load_transfers(transfers_json)) < MaxTransfers
        /\ Returned(transfer_request(a, today, now, transfers_json))
        /\ UNCHANGED <<today, now, deposit_files, accepted, call>>
        /\ UNCHANGED <<transactions_json, balance_files>>

Next ==
    \/ Tick
    \/ TickMidnight
    \/ \E a \in Requests : TransferRequestCall(a)

Spec == Init /\ [][Next]_vars

\* requests with each field valid or invalid on its own
DefectArgs ==
    {Args(f, t, c, y, d, m) :
        f \in {IbanA, <<"F", "R">> \o SubSeq(IbanA, 3, 24)},
        t \in {IbanB, SubSeq(IbanB, 1, 23)},
        c \in {HouseRent, <<"R", "e", "n", "t">>},
        y \in {"ORDINARY", "FAST"},
        d \in {Text_7_7_2025, Text_31_12_2024},
        m \in {FloatAmount(500750), FloatAmount(9990), IntAmount(100)}}

InitTransferChecks == Init /\ today = Date(2025, 7, 6)

NextTransferChecks == \E a \in DefectArgs : TransferRequestCall(a)

SpecTransferChecks == InitTransferChecks /\ [][NextTransferChecks]_vars

-----------------------------------------------------------------------------
(* transfer_request, one call at a time on a ledger file of any content *)

\* the record a call with RentArgs at clock reading 0 stores
RentRecord ==
    [from_iban |-> IbanA, to_iban |-> IbanB, transfer_type |-> "ORDINARY",
     transfer_amount |-> <<"5", "0", "0", ".", "7", "5">>,
     transfer_concept |-> HouseRent, transfer_date |-> Text_7_7_2025,
     time_stamp |-> 0,
     transfer_code |-> md5_hexdigest(<<"Transfer:", IbanA, IbanB, "ORDINARY",
                                       HouseRent, Text_7_7_2025,
                                       <<"5", "0", "0", ".", "7", "5">>, 0>>)]

\* list elements that are no stored record
ForeignEntries ==
    {JObj(<<>>), JObj(<< <<"from_iban", JStr(IbanA)>> >>),
     JObj(<< <<"transfer_code", JStr(<<"a", "b">>)>> >>),
     JNum(<<"7">>), JNull, JStr(IbanA), JArr(<<>>)}

\* the contents of transfers.json before the call
LedgerFiles ==
    {Missing, Unparsable, JsonList(<<>>), JsonList(<<RentRecord>>)}
    \cup {JsonValue(doc) :
             doc \in {JObj(<<>>), JObj(<< <<"transfer_code", JStr(<<"a", "b">>)>> >>),
                      JNull, JNum(<<"7">>), JStr(<<>>), JStr(IbanA)}}
    \cup {JsonList(<<e>>) : e \in ForeignEntries}

InitLedger ==
    /\ today = Date(2025, 7, 6)
    /\ now = 0
    /\ transfers_json \in LedgerFiles
    /\ deposit_files = NoFiles
    /\ accepted = 0
    /\ last = NoCall
    /\ call = [p \in Callers |-> IdleFrame]
    /\ transactions_json = NoTransactions
    /\ balance_files = NoFiles

NextLedger ==
    \/ Tick
    \/ \E a \in ConcurrentRequests : TransferRequestCall(a)

SpecLedger == InitLedger /\ [][NextLedger]_vars

-----------------------------------------------------------------------------
(* transfer_request, callers interleaved at their file operations *)

\* TransferRequest(...) and to_json(): lines 229-230
Begin(p, a) ==
    LET c == TransferRequest_init(a, today, now)
    IN  /\ call[p].pc = "idle"
        /\ call[p].n < MaxCalls
        /\ call' = [call EXCEPT ![p] =
              IF c.ok
              THEN [pc |-> "load", args |-> a, transfer |-> c.val,
                    transfers |-> <<>>, out |-> <<>>, n |-> call[p].n + 1]
              ELSE [pc |-> "failed", args |-> a, transfer |-> <<>>,
                    transfers |-> <<>>, n |-> call[p].n + 1,
                    out |-> [ok |-> FALSE, exc |-> c.exc, err |-> c.err,
                             ret |-> <<>>]]]
        /\ UNCHANGED <<today, now, transfers_json, deposit_files, accepted, last>>
        /\ UNCHANGED <<transactions_json, balance_files>>

\* open(file_name, "r") and json.load(f): lines 233-237
Load(p) ==
    /\ call[p].pc = "load"
    /\ call' = [call EXCEPT ![p].pc = "check",
                            ![p].transfers = load_transfers(transfers_json)]
    /\ UNCHANGED <<today, now, transfers_json, deposit_files, accepted, last>>
    /\ UNCHANGED <<transactions_json, balance_files>>

\* the duplicate check and transfers.append(transfer_data): lines 239-242
Check(p) ==
    /\ call[p].pc = "check"
    /\ LET Checked(d) ==
               IF ~d.ok
               THEN [call[p] EXCEPT !.pc = "failed",
                                    !.out = [ok |-> FALSE, exc |-> d.exc,
                                             err |-> "", ret |-> <<>>]]
               ELSE IF d.val
               THEN [call[p] EXCEPT !.pc = "failed",
                                    !.out = [ok |-> FALSE, exc |-> AME,
                                             err |-> "Duplicate transfer detected",
                                             ret |-> <<>>]]
               ELSE [call[p] EXCEPT !.pc = "open",
                                    !.transfers =
                                        Append(@, to_json(call[p].transfer))]
       IN  call' = [call EXCEPT ![p] =
                       Checked(is_duplicate(call[p].transfers, call[p].transfer))]
    /\ UNCHANGED <<today, now, transfers_json, deposit_files, accepted, last>>
    /\ UNCHANGED <<transactions_json, balance_files>>

\* open(file_name, "w") empties the file: line 243
Open(p) ==
    /\ call[p].pc = "open"
    /\ transfers_json' = Unparsable
    /\ call' = [call EXCEPT ![p].pc = "dump"]
    /\ UNCHANGED <<today, now, deposit_files, accepted, last>>
    /\ UNCHANGED <<transactions_json, balance_files>>

\* json.dump and close, then return: lines 244-246.  When another caller has
\* written since this one emptied the file, the bytes of this dump overlay
\* the other's: the file holds this list, or a mix that does not parse.
Dump(p) ==
    /\ call[p].pc = "dump"
    /\ transfers_json' \in
          IF transfers_json.kind = "list"
          THEN {dump_transfers(call[p].transfers), Unparsable}
          ELSE {dump_transfers(call[p].transfers)}
    /\ call' = [call EXCEPT ![p].pc = "returned",
                            ![p].out = [ok |-> TRUE, exc |-> "", err |-> "",
                                        ret |-> transfer_code(call[p].transfer)]]
    /\ UNCHANGED <<today, now, deposit_files, accepted, last>>
    /\ UNCHANGED <<transactions_json, balance_files>>

\* the caller is free for its next call
Finish(p) ==
    /\ call[p].pc \in {"returned", "failed"}
    /\ call' = [call EXCEPT ![p] = [IdleFrame EXCEPT !.n = call[p].n]]
    /\ UNCHANGED <<today, now, transfers_json, deposit_files, accepted, last>>
    /\ UNCHANGED <<transactions_json, balance_files>>

NextConcurrent ==
    \/ Tick
    \/ \E p \in Callers : \E a \in ConcurrentRequests : Begin(p, a)
    \/ \E p \in Callers : Load(p)
    \/ \E p \in Callers : Check(p)
    \/ \E p \in Callers : Open(p)
    \/ \E p \in Callers : Dump(p)
    \/ \E p \in Callers : Finish(p)

InitConcurrent == Init /\ today = Date(2025, 7, 6)

SpecConcurrent == InitConcurrent /\ [][NextConcurrent]_vars

-----------------------------------------------------------------------------
(* deposit_into_account, one call at a time *)

\* the input file of test "valid_json", for an IBAN and an amount text
DepositDoc(alg, typ, iban, amount, deposit_date) ==
    JObj(<< <<"alg", JStr(alg)>>, <<"typ", JStr(typ)>>, <<"iban", JStr(iban)>>,
            <<"amount", JStr(amount)>>, <<"deposit_date", JStr(deposit_date)>> >>)

Eur100_50 == <<"E","U","R"," ","1","0","0",".","5","0">>

Eur250_00 == <<"E","U","R"," ","2","5","0",".","0","0">>

IsoDate == <<"2","0","2","5","-","0","3","-","2","0","T","1","2",":","3","4",":","5","6","Z">>

ValidDoc(iban, amount) == DepositDoc(Sha256Tag, DepositTag, iban, amount, IsoDate)

File(doc) == [doc |-> doc, exists |-> TRUE]

NoSuchFile == [exists |-> FALSE, doc |-> JNull]

ValidDepositInputs ==
    {File(ValidDoc(IbanA, Eur100_50)), File(ValidDoc(IbanA, Eur250_00)),
     File(ValidDoc(IbanB, Eur100_50))}

InvalidDateInput ==
    File(DepositDoc(Sha256Tag, DepositTag, IbanA, Eur100_50,
                    <<"2","0","/","0","3","/","2","0","2","5">>))

InvalidDepositInputs ==
    { NoSuchFile,
      File(NotJson(<<>>)),
      File(JObj(<< <<"alg", JStr(Sha256Tag)>> >>
                \o ValidDoc(IbanA, Eur100_50).items)),
      File(JObj(<<>>)),
      File(JObj(Tail(ValidDoc(IbanA, Eur100_50).items))),
      File(DepositDoc(<<"M", "D", "5">>, DepositTag, IbanA, Eur100_50, IsoDate)),
      File(DepositDoc(Sha256Tag, <<"T", "R", "A", "N", "S", "F", "E", "R">>,
                      IbanA, Eur100_50, IsoDate)),
      File(ValidDoc(SubSeq(IbanA, 1, 23), Eur100_50)),
      File(ValidDoc(IbanA, <<"U", "S", "D">> \o SubSeq(Eur100_50, 4, 10))),
      File(ValidDoc(IbanA, SubSeq(Eur100_50, 1, 9))),
      InvalidDateInput }

\* a valid IBAN followed by one more character
IbanExtended == IbanA \o <<"X">>

\* the five fields, each right or wrong on its own
FieldDocs ==
    {DepositDoc(a, t, i, m, d) :
        a \in {Sha256Tag, <<"M", "D", "5">>},
        t \in {DepositTag, <<"T", "R", "A", "N", "S", "F", "E", "R">>},
        i \in {IbanA, SubSeq(IbanA, 1, 23), IbanExtended},
        m \in {Eur100_50, <<"U", "S", "D">> \o SubSeq(Eur100_50, 4, 10)},
        d \in {IsoDate, <<"2","0","/","0","3","/","2","0","2","5">>}}

\* the document without the pair of a key
WithoutKey(doc, key) == JObj(SelectSeq(doc.items, LAMBDA pair : pair[1] # key))

\* the document with the value of a key replaced
WithValue(doc, key, v) ==
    JObj([i \in 1..Len(doc.items) |->
            IF doc.items[i][1] = key THEN <<key, v>> ELSE doc.items[i]])

\* input files with several defects at once
DefectInputs ==
    {File(doc) : doc \in FieldDocs}
    \cup {File(WithoutKey(doc, key)) : doc \in FieldDocs, key \in {"alg", "amount"}}
    \cup {File(JObj(doc.items \o << <<"typ", JStr(DepositTag)>> >>)) :
            doc \in FieldDocs}
    \cup {File(NotJson(<< <<"", doc>> >>)) : doc \in {ValidDoc(IbanA, Eur100_50), JObj(<<>>)}}
    \cup {NoSuchFile,
          File(JArr(<< <<"", JNum(<<"1">>)>> >>)), File(JArr(<<>>)), File(JNull),
          File(WithValue(ValidDoc(IbanExtended, Eur100_50), "amount",
                         JNum(<<"1", "0", "0">>))),
          File(WithValue(DepositDoc(Sha256Tag, DepositTag, SubSeq(IbanA, 1, 23),
                                    Eur100_50, IsoDate),
                         "deposit_date", JNum(<<"2", "0", "2", "5">>)))}

DepositInputs == ValidDepositInputs \cup InvalidDepositInputs

DepositCall(input) ==
    LET Returned(r) ==
            /\ deposit_files' = r.files
            /\ accepted' = IF r.ok THEN accepted + 1 ELSE accepted
            /\ last' = [op |-> "deposit_into_account", input |-> input,
                        now |-> now, before |-> deposit_files,
                        out |-> [ok |-> r.ok, exc |-> r.exc, err |-> r.err,
                                 ret |-> r.ret]]
    IN  /\ accepted < MaxDeposits
        /\ Returned(deposit_into_account(input, now, deposit_files))
        /\ UNCHANGED <<today, now, transfers_json, call>>
        /\ UNCHANGED <<transactions_json, balance_files>>

NextDeposit ==
    \/ Tick
    \/ \E input \in DepositInputs : DepositCall(input)

SpecDeposit == Init /\ [][NextDeposit]_vars

\* deposit_into_account on the input files with several defects
InitDepositChecks ==
    /\ Init
    /\ today = Date(2025, 7, 6)
    /\ transfers_json = Missing

NextDepositChecks == \E input \in DefectInputs : DepositCall(input)

SpecDepositChecks == InitDepositChecks /\ [][NextDepositChecks]_vars

-----------------------------------------------------------------------------
(* deposit_into_account on inputs that differ in their deposit_date *)

IsoDateLater == <<"2","0","2","6","-","1","1","-","0","2","T","0","8",":","0","0",":","0","0","Z">>

ValidDates == {IsoDate, IsoDateLater}

DateInputs ==
    {File(DepositDoc(Sha256Tag, DepositTag, iban, Eur100_50, d)) :
        iban \in {IbanA, IbanB}, d \in ValidDates}
    \cup {InvalidDateInput}

NextDepositDates ==
    \/ Tick
    \/ \E input \in DateInputs : DepositCall(input)

SpecDepositDates == InitDepositChecks /\ [][NextDepositDates]_vars

-----------------------------------------------------------------------------
(* load_json_with_duplicate_check, on documents with and without repeated keys *)

\* the pair sequences of an object of at most two members
PairSeqs(values) ==
    LET pairs == {<<k, v>> : k \in {"iban", "amount"}, v \in values}
    IN  {<<>>} \cup {<<p>> : p \in pairs} \cup {<<p, q>> : p \in pairs, q \in pairs}

\* the objects nested in the documents
InnerObjects ==
    { JObj(<<>>),
      JObj(<< <<"iban", JNum(<<"1">>)>> >>),
      JObj(<< <<"amount", JNum(<<"1">>)>> >>),
      JObj(<< <<"iban", JNum(<<"1">>)>>, <<"iban", JNum(<<"1">>)>> >>),
      JObj(<< <<"iban", JNum(<<"1">>)>>, <<"iban", JNum(<<"2">>)>> >>) }

JsonDocs ==
    {JObj(pairs) : pairs \in PairSeqs({JNum(<<"1">>), JNum(<<"2">>)}
                                      \cup InnerObjects)}
    \cup {JArr(<< <<"", v>>, <<"", w>> >>) : v \in InnerObjects, w \in InnerObjects}
    \cup {JObj(<< <<"iban", JArr(<< <<"", v>> >>)>> >>) : v \in InnerObjects}
    \cup {NotJson(<< <<"", v>> >>) : v \in InnerObjects}
    \cup {ValidDoc(IbanA, Eur100_50),
          JObj(ValidDoc(IbanA, Eur100_50).items
               \o << <<"amount", JStr(Eur250_00)>> >>),
          JObj(ValidDoc(IbanA, Eur100_50).items
               \o << <<"deposit_date", JStr(IsoDate)>> >>),
          JObj(ValidDoc(IbanA, Eur100_50).items
               \o << <<"note", JObj(<< <<"iban", JStr(IbanA)>> >>)>> >>),
          JObj(ValidDoc(IbanA, Eur100_50).items
               \o << <<"note", JObj(<< <<"text", JStr(IbanA)>> >>)>> >>)}

LoadJsonCall(doc) ==
    /\ last' = [op |-> "load_json_with_duplicate_check", doc |-> doc,
                out |-> load_json_with_duplicate_check(doc)]
    /\ UNCHANGED <<today, now, transfers_json, deposit_files, accepted, call>>
    /\ UNCHANGED <<transactions_json, balance_files>>

\* the documents as input files of deposit_into_account
JsonInputs == {File(doc) : doc \in JsonDocs}

NextJson ==
    \/ \E doc \in JsonDocs : LoadJsonCall(doc)
    \/ \E input \in JsonInputs : DepositCall(input)

SpecJson == InitDepositChecks /\ [][NextJson]_vars

-----------------------------------------------------------------------------
(* deposits and transfers whose records differ in one field *)

\* RentArgs and the requests that differ from it in one argument
OneFieldRequests ==
    {RentArgs,
     [RentArgs EXCEPT !.from_iban = IbanB],
     [RentArgs EXCEPT !.to_iban = IbanA],
     [RentArgs EXCEPT !.transfer_type = "URGENT"],
     [RentArgs EXCEPT !.concept = TravelBooking],
     [RentArgs EXCEPT !.date = Text_31_12_2050],
     [RentArgs EXCEPT !.amount = FloatAmount(4300000)]}

NextSignatures ==
    \/ Tick
    \/ \E a \in OneFieldRequests : TransferRequestCall(a)
    \/ \E input \in ValidDepositInputs : DepositCall(input)

SpecSignatures == InitTransferChecks /\ [][NextSignatures]_vars

-----------------------------------------------------------------------------
(* calculate_balance, one call at a time on a transactions file *)

\* {"IBAN": iban, "amount": amount}
Entry(iban, amount) ==
    JObj(<< <<"IBAN", JStr(iban)>>, <<"amount", amount>> >>)

Text_100 == <<"1", "0", "0">>

Text_50 == <<"5", "0">>

Text_abc == <<"a", "b", "c">>

\* the amount texts of the entries, with the number each one writes, in
\* thousandths
AmountTexts_milli ==
    { <<Text_100, 100000>>, <<Text_50, 50000>>, <<<<"-", "5", "0">>, 0 - 50000>>,
      <<<<"0">>, 0>>, <<<<"1", "2", ",", "5">>, 12500>> }

\* texts that are no number
BadAmountTexts == {Text_abc, <<"1", ".", "0", "0", "0", ",", "5", "0">>, <<>>}

\* the elements of the ledgers of at most two entries
LedgerEntries ==
    {Entry(IbanA, JStr(t[1])) : t \in AmountTexts_milli}
    \cup {Entry(IbanA, JStr(t)) : t \in BadAmountTexts}
    \cup { Entry(IbanB, JStr(Text_100)),
           Entry(IbanB, JStr(Text_abc)),
           Entry(IbanExtended, JStr(Text_100)),
           Entry(IbanA, JNum(Text_100)),
           Entry(IbanA, JNull),
           JObj(<< <<"IBAN", JStr(IbanA)>> >>),
           JObj(<< <<"amount", JStr(Text_100)>> >>),
           JObj(Entry(IbanA, JStr(Text_abc)).items \o << <<"amount", JStr(Text_50)>> >>),
           JNum(<<"7">>),
           JStr(IbanA),
           JArr(<< <<"", Entry(IbanA, JStr(Text_100))>> >>) }

Ledger(entries) == File(JArr([i \in 1..Len(entries) |-> <<"", entries[i]>>]))

\* the contents of the transactions file; the ledgers of three entries are
\* drawn from four of the elements
TransactionFiles ==
    LET few == {Entry(IbanA, JStr(Text_100)), Entry(IbanA, JStr(Text_abc)),
                Entry(IbanB, JStr(Text_50)), JNum(<<"7">>)}
    IN
    {Ledger(<<>>)}
    \cup {Ledger(<<e>>) : e \in LedgerEntries}
    \cup {Ledger(<<e, f>>) : e \in LedgerEntries, f \in LedgerEntries}
    \cup {Ledger(<<e, f, g>>) : e \in few, f \in few, g \in few}
    \cup {NoTransactions, File(NotJson(<<>>)), File(JNull), File(JNum(<<"7">>)),
          File(JStr(IbanA)), File(Entry(IbanA, JStr(Text_100))), File(JObj(<<>>))}

\* the arguments of calculate_balance
BalanceIbans ==
    {JStr(IbanA), JStr(IbanB), JStr(IbanExtended), JStr(SubSeq(IbanA, 1, 23)),
     JStr(<<"I","N","V","A","L","I","D","_","I","B","A","N">>), JNum(Text_100)}

InitBalance ==
    /\ today = Date(2025, 7, 6)
    /\ now = 0
    /\ transfers_json = Missing
    /\ deposit_files = NoFiles
    /\ accepted = 0
    /\ last = NoCall
    /\ call = [p \in Callers |-> IdleFrame]
    /\ transactions_json \in TransactionFiles
    /\ balance_files = NoFiles

BalanceCall(iban_number) ==
    LET Returned(r) ==
            /\ balance_files' = r.files
            /\ last' = [op |-> "calculate_balance", iban_number |-> iban_number,
                        now |-> now, before |-> balance_files,
                        out |-> [ok |-> r.ok, exc |-> r.exc, err |-> r.err,
                                 ret |-> r.ret]]
    IN  /\ Returned(calculate_balance(iban_number, now, transactions_json,
                                      balance_files))
        /\ UNCHANGED <<today, now, transfers_json, deposit_files, accepted, call>>
        /\ UNCHANGED transactions_json

NextBalance == \E iban_number \in BalanceIbans : BalanceCall(iban_number)

SpecBalance == InitBalance /\ [][NextBalance]_vars

-----------------------------------------------------------------------------
(* the three operations, one call at a time in any order *)

PipelineLedgers ==
    {NoTransactions,
     Ledger(<<Entry(IbanA, JStr(Text_100)), Entry(IbanA, JStr(Text_50))>>),
     Ledger(<<Entry(IbanA, JStr(Text_100)), Entry(IbanB, JStr(Text_50))>>)}

PipelineDeposits == {File(ValidDoc(IbanA, Eur100_50)), InvalidDateInput}

PipelineIbans == {JStr(IbanA), JStr(IbanB)}

InitPipelines ==
    /\ today = Date(2025, 7, 6)
    /\ now = 0
    /\ transfers_json = Missing
    /\ deposit_files = NoFiles
    /\ accepted = 0
    /\ last = NoCall
    /\ call = [p \in Callers |-> IdleFrame]
    /\ transactions_json \in PipelineLedgers
    /\ balance_files = NoFiles

NextPipelines ==
    \/ Tick
    \/ \E a \in {RentArgs, PastDateArgs} : TransferRequestCall(a)
    \/ \E input \in PipelineDeposits : DepositCall(input)
    \/ \E iban_number \in PipelineIbans : BalanceCall(iban_number)

SpecPipelines == InitPipelines /\ [][NextPipelines]_vars

-----------------------------------------------------------------------------
(* The validators of TransferRequest, called on their own *)

\* f"{d.day}/{d.month}/{d.year}"
FormatDMY(d) ==
    NatToStr(d.d) \o <<"/">> \o NatToStr(d.m) \o <<"/">> \o NatToStr(d.y)

Pad2(n) == IF n < 10 THEN <<"0">> \o NatToStr(n) ELSE NatToStr(n)

\* d.strftime("%d/%m/%Y")
FormatDMYPadded(d) ==
    Pad2(d.d) \o <<"/">> \o Pad2(d.m) \o <<"/">> \o NatToStr(d.y)

ProbeDays ==
    {Date(2024, 12, 31), Date(2025, 1, 1), Date(2025, 7, 6), Date(2025, 7, 7),
     Date(2025, 7, 8), Date(2026, 11, 2), Date(2028, 2, 29), Date(2050, 12, 31),
     Date(2051, 1, 1)}

\* the current dates the validators are called on
ProbeTodays == ProbeDays \ {Date(2024, 12, 31)}

NoDate == Date(0, 0, 0)

\* texts that are no calendar date written day/month/year
MalformedDates ==
    { <<"2","0","2","5","-","0","7","-","0","7">>,
      <<"3","1","/","2","/","2","0","2","5">>,
      <<"2","9","/","2","/","2","0","2","6">>,
      <<"7","/","1","3","/","2","0","2","5">>,
      <<"7","/","7","/","2","5">>,
      <<"7","/","7","/","2","0","2","5"," ">> }

ProbeDateInputs ==
    {[text |-> FormatDMY(d), meant |-> d] : d \in ProbeDays}
    \cup {[text |-> FormatDMYPadded(d), meant |-> d] : d \in ProbeDays}
    \cup {[text |-> x, meant |-> NoDate] : x \in MalformedDates}

ProbeAmounts ==
    {FloatAmount(m) : m \in {9990, 10000, 10001, 10010, 10100, 100000, 500750,
                             750500, 1250555, 1500000, 10000000, 10000010}}
    \cup {IntAmount(n) : n \in {9, 10, 99, 100, 1500, 10000, 10001}}

\* the texts validate_iban is called on
ProbeIbans ==
    { IbanA, IbanB, IbanExtended,
      IbanA \o <<"0">>,
      IbanA \o <<"\n">>,
      <<" ">> \o IbanA,
      SubSeq(IbanA, 1, 23),
      <<"F", "R">> \o SubSeq(IbanA, 3, 24),
      <<"e", "s">> \o SubSeq(IbanA, 3, 24),
      <<"S", "E">> \o SubSeq(IbanA, 3, 24),
      SubSeq(IbanA, 1, 4) \o <<"A">> \o SubSeq(IbanA, 6, 24),
      SubSeq(IbanA, 1, 23) \o <<"B">>,
      SubSeq(IbanA, 1, 12) \o <<" ">> \o SubSeq(IbanA, 14, 24),
      SubSeq(IbanA, 3, 24) \o <<"E", "S">>,
      <<"E", "S">>,
      <<>> }

InitValidators ==
    /\ today \in ProbeTodays
    /\ now = 0
    /\ transfers_json = Missing
    /\ deposit_files = NoFiles
    /\ accepted = 0
    /\ last = NoCall
    /\ call = [p \in Callers |-> IdleFrame]
    /\ transactions_json = NoTransactions
    /\ balance_files = NoFiles

ValidateDateCall(in) ==
    /\ last' = [op |-> "validate_date", text |-> in.text, meant |-> in.meant,
                today |-> today,
                out |-> TransferRequest_validate_date(in.text, today)]
    /\ UNCHANGED <<today, now, transfers_json, deposit_files, accepted, call>>
    /\ UNCHANGED <<transactions_json, balance_files>>

ValidateAmountCall(amount) ==
    /\ last' = [op |-> "validate_amount", amount |-> amount,
                out |-> TransferRequest_validate_amount(amount)]
    /\ UNCHANGED <<today, now, transfers_json, deposit_files, accepted, call>>
    /\ UNCHANGED <<transactions_json, balance_files>>

\* validate_iban on its own and, as the field named, in the constructor
ValidateIbanCall(iban, field) ==
    /\ last' = [op |-> "validate_iban", iban |-> iban, field |-> field,
                today |-> today,
                out |-> TransferRequest_validate_iban(iban),
                init |-> TransferRequest_init(
                             IF field = "from_iban"
                             THEN [TripArgs EXCEPT !.from_iban = iban]
                             ELSE [TripArgs EXCEPT !.to_iban = iban],
                             today, now)]
    /\ UNCHANGED <<today, now, transfers_json, deposit_files, accepted, call>>
    /\ UNCHANGED <<transactions_json, balance_files>>

NextValidators ==
    \/ \E in \in ProbeDateInputs : ValidateDateCall(in)
    \/ \E iban \in ProbeIbans : \E field \in {"from_iban", "to_iban"} :
          ValidateIbanCall(iban, field)
    \/ \E amount \in ProbeAmounts : ValidateAmountCall(amount)

SpecValidators == InitValidators /\ [][NextValidators]_vars

-----------------------------------------------------------------------------
(* Properties *)

Recs == transfers_json.recs

HasCode(recs, code) == \E i \in 1..Len(recs) : recs[i].transfer_code = code

\* the code of the record built from arguments a at clock reading time_stamp
CodeOfArgs(a, time_stamp) ==
    transfer_code([from_iban |-> a.from_iban, to_iban |-> a.to_iban,
                   transfer_type |-> a.transfer_type, concept |-> a.concept,
                   transfer_date |-> a.date, transfer_amount |-> a.amount,
                   time_stamp |-> time_stamp])

\* the record rec stores the arguments a, stamped time_stamp
StoresArgs(rec, a, time_stamp) ==
    /\ rec.from_iban = a.from_iban
    /\ rec.to_iban = a.to_iban
    /\ rec.transfer_type = a.transfer_type
    /\ rec.transfer_concept = a.concept
    /\ rec.transfer_date = a.date
    /\ rec.transfer_amount = str_amount(a.amount)
    /\ rec.time_stamp = time_stamp

IsTransferCall == last.op = "transfer_request"

IsDepositCall == last.op = "deposit_into_account"

DuplicateError == "Duplicate transfer detected"

\* C1: with one writer, from a missing or empty ledger, no two records of the
\* ledger have the same transfer_code.
C1_UniqueCodes ==
    \A i \in 1..Len(Recs) : \A j \in 1..Len(Recs) :
        i # j => Recs[i].transfer_code # Recs[j].transfer_code

\* two records of the same request, stamped at different instants, are stored
C1_Witness ==
    /\ Len(Recs) = 2
    /\ StoresArgs(Recs[1], TripArgs, Recs[1].time_stamp)
    /\ StoresArgs(Recs[2], TripArgs, Recs[2].time_stamp)

\* C2: a call that repeats the fields of the accepted call before it, its
\* fields valid when it is made, fails with the duplicate error and leaves
\* the ledger as it was when both got the same timestamp, and succeeds with
\* both records stored when the timestamps differ.
C2_RepeatedRequest ==
    [][ ( /\ IsTransferCall
          /\ last.out.ok
          /\ last' # last
          /\ last'.op = "transfer_request"
          /\ last'.args = last.args
          /\ TransferRequest_init(last'.args, last'.today, last'.now).ok )
        => IF last'.now = last.now
           THEN /\ ~last'.out.ok
                /\ last'.out.err = DuplicateError
                /\ transfers_json' = transfers_json
                /\ HasCode(transfers_json'.recs, last.out.ret)
           ELSE /\ last'.out.ok
                /\ last'.out.ret # last.out.ret
                /\ HasCode(transfers_json'.recs, last.out.ret)
                /\ HasCode(transfers_json'.recs, last'.out.ret) ]_vars

\* the repeated request was refused and the ledger holds the first record only
C2_Witness ==
    /\ IsTransferCall
    /\ last.out.err = DuplicateError
    /\ Len(Recs) = 1
    /\ StoresArgs(Recs[1], last.args, last.now)

\* C3: an accepted call on a ledger that parses as a list leaves that list
\* with the new record added at its end and the stored records as they were.
C3_AppendsOne ==
    (IsTransferCall /\ last.out.ok /\ last.before.kind = "list")
    => /\ transfers_json.kind = "list"
       /\ Len(Recs) = Len(last.before.recs) + 1
       /\ SubSeq(Recs, 1, Len(last.before.recs)) = last.before.recs
       /\ StoresArgs(Recs[Len(Recs)], last.args, last.now)
       /\ Recs[Len(Recs)].transfer_code = last.out.ret

\* a call was accepted on a ledger that held a record already
C3_Witness ==
    /\ IsTransferCall
    /\ last.out.ok
    /\ last.before.kind = "list"
    /\ Len(last.before.recs) >= 1

AllReturned == \A p \in Callers : call[p].pc = "returned"

\* C4: when the concurrent callers have all returned, each got its code and
\* no error, and a ledger that parses is the list of one of them, the last
\* to write: a record the last writer had not loaded is not in it.
C4_LastWriterWins ==
    AllReturned
    => /\ \A p \in Callers :
            call[p].out.ok /\ call[p].out.ret = transfer_code(call[p].transfer)
       /\ transfers_json.kind = "list"
            => \E p \in Callers : Recs = call[p].transfers

\* both callers returned a code, the codes differ, and the ledger holds the
\* record of one of them only
C4_LostUpdate ==
    /\ AllReturned
    /\ call["c1"].out.ret # call["c2"].out.ret
    /\ transfers_json.kind = "list"
    /\ HasCode(Recs, call["c1"].out.ret) # HasCode(Recs, call["c2"].out.ret)

\* C5: there are as many deposit output files as accepted deposits: no
\* accepted deposit replaces the file of an earlier one.
C5_FilePerDeposit == Cardinality(DOMAIN deposit_files) = accepted

\* C6: a deposit_into_account that fails leaves the deposit files, their
\* names and their contents, as they were before the call.
C6_FailureWritesNothing ==
    (IsDepositCall /\ ~last.out.ok) => deposit_files = last.before

\* a deposit failed at the last check, the date, with a deposit file on disk
C6_Witness ==
    /\ IsDepositCall
    /\ last.input = InvalidDateInput
    /\ last.out.err = "Invalid deposit_date format"
    /\ deposit_files # NoFiles

\* C7: a transfer_request that fails leaves the ledger as it was; a failed
\* validation has not touched the file, a duplicate has only read it.
C7_FailureLeavesLedger ==
    (IsTransferCall /\ ~last.out.ok)
    => /\ transfers_json = last.before
       /\ last.out.io = IF last.out.err = DuplicateError THEN <<"read">> ELSE <<>>

\* a duplicate was refused on a ledger that holds a record
C7_Witness ==
    /\ IsTransferCall
    /\ last.out.err = DuplicateError
    /\ last.before.kind = "list"
    /\ Len(Recs) >= 1

RentAccepted ==
    /\ last.out.ok
    /\ last.out.ret = CodeOfArgs(RentArgs, last.now)
    /\ hexdigest_len(last.out.ret) = 32

RentCall ==
    /\ IsTransferCall
    /\ last.args = RentArgs
    /\ ~HasCode(load_transfers(last.before), CodeOfArgs(RentArgs, last.now))

IsDateCall == last.op = "validate_date"

YearInRange(d) == 2025 <= d.y /\ d.y <= 2050

\* a calendar date written day/month/year is accepted exactly when its year
\* is in [2025, 2050] and it is not before the current date; other texts are
\* refused
DateRule ==
    last.out.ok <=> /\ last.meant # NoDate
                    /\ YearInRange(last.meant)
                    /\ ~DateLt(last.meant, last.today)

\* C9 as stated: for every current date, the current date and 31/12/2050 are
\* accepted, 31/12/2024 and 1/1/2051 are refused, and the rule holds.
C9_EveryCurrentDate ==
    IsDateCall
    => /\ last.text = FormatDMY(last.today) => last.out.ok
       /\ last.text = Text_31_12_2050 => last.out.ok
       /\ last.text = Text_31_12_2024 => ~last.out.ok
       /\ last.text = Text_1_1_2051 => ~last.out.ok
       /\ DateRule

\* C9: validate_date accepts a date written day/month/year exactly when its
\* year is in [2025, 2050] and it is not before the current date: 31/12/2024
\* and 1/1/2051 are refused for every current date, the current date is
\* accepted when its year is in [2025, 2050], and 31/12/2050 is accepted
\* when the current date is not after it.
C9_WithinYearRange ==
    IsDateCall
    => /\ (last.text = FormatDMY(last.today) /\ YearInRange(last.today))
            => last.out.ok
       /\ (last.text = Text_31_12_2050 /\ ~DateLt(Date(2050, 12, 31), last.today))
            => last.out.ok
       /\ last.text = Text_31_12_2024 => ~last.out.ok
       /\ last.text = Text_1_1_2051 => ~last.out.ok
       /\ DateRule

\* the current date, the last day of the range, was accepted
C9_Witness ==
    /\ IsDateCall
    /\ last.text = FormatDMY(last.today)
    /\ last.text = Text_31_12_2050
    /\ last.out.ok

\* C10: validate_amount accepts a number exactly when it is in
\* [10.00, 10000.00] and has at most two fractional digits, whole numbers
\* such as 100 and 1500 included.
C10_AmountRule ==
    last.op = "validate_amount"
    => (last.out.ok <=> /\ 10000 <= last.amount.milli
                        /\ last.amount.milli <= 10000000
                        /\ last.amount.milli % 10 = 0)

\* the input passes every check that deposit_into_account makes before the
\* IBAN check
ReachesIbanCheck(input) ==
    /\ input.exists
    /\ load_json_with_duplicate_check(input.doc).ok
    /\ input.doc.type = "object"
    /\ required_keys \subseteq Keys(input.doc)
    /\ Get(input.doc, "alg") = JStr(Sha256Tag)
    /\ Get(input.doc, "typ") = JStr(DepositTag)

\* exactly "ES" and 22 digits
IsExactIbanText(text) ==
    /\ Len(text) = 24
    /\ SubSeq(text, 1, 2) = <<"E", "S">>
    /\ \A i \in 3..24 : text[i] \in Digits

IsExactIban(v) == v.type = "string" /\ IsExactIbanText(v.text)

\* C11 as stated: a deposit whose IBAN is not exactly "ES" and 22 digits and
\* nothing else is refused with the invalid-IBAN error and no output file is
\* written.
C11_ExactIbanOnly ==
    ( /\ IsDepositCall
      /\ ReachesIbanCheck(last.input)
      /\ ~IsExactIban(Get(last.input.doc, "iban")) )
    => /\ ~last.out.ok
       /\ last.out.err = "Invalid IBAN format"
       /\ deposit_files = last.before

InvalidIbanError == "Invalid IBAN: Must start with 'ES' and contain 24 digits"

\* C12: TransferRequest.validate_iban returns the text when it is exactly
\* "ES" and 22 digits and raises the invalid-IBAN error for any other text;
\* the constructor raises that error for such a text as from-IBAN and as
\* to-IBAN alike.
C12_ExactIban ==
    last.op = "validate_iban"
    => /\ last.out.ok <=> IsExactIbanText(last.iban)
       /\ last.out.ok => last.out.val = last.iban
       /\ ~last.out.ok
            => /\ last.out.exc = AME
               /\ last.out.err = InvalidIbanError
               /\ ~last.init.ok
               /\ last.init.exc = AME
               /\ last.init.err = InvalidIbanError

\* a valid IBAN followed by one more character was refused as to-IBAN
C12_Witness ==
    /\ last.op = "validate_iban"
    /\ last.iban = IbanExtended
    /\ last.field = "to_iban"
    /\ ~last.init.ok
    /\ last.init.err = InvalidIbanError

RECURSIVE RepeatsOwnKey(_)
\* some object of the document, at any depth, has two members of one key
RepeatsOwnKey(v) ==
    \/ /\ v.type = "object"
       /\ \E i \in 1..Len(v.items) : \E j \in 1..Len(v.items) :
             i # j /\ v.items[i][1] = v.items[j][1]
    \/ \E i \in 1..Len(v.items) : RepeatsOwnKey(v.items[i][2])

IsLoadCall == last.op = "load_json_with_duplicate_check"

\* C13: for a JSON document in which some object, at any depth, has the same
\* key twice, load_json_with_duplicate_check raises the typed duplicate-key
\* error, and deposit_into_account fails with it and writes no file.
C13_RepeatedKeyRefused ==
    /\ (IsLoadCall /\ last.doc.type # "invalid" /\ RepeatsOwnKey(last.doc))
        => /\ ~last.out.ok
           /\ last.out.exc = AME
           /\ last.out.err = "Duplicate key found in JSON"
    /\ ( /\ IsDepositCall
         /\ last.input.exists
         /\ last.input.doc.type # "invalid"
         /\ RepeatsOwnKey(last.input.doc) )
        => /\ ~last.out.ok
           /\ last.out.exc = AME
           /\ last.out.err = "Duplicate key found in JSON"
           /\ deposit_files = last.before

\* a deposit document that is valid but for a second amount was refused
C13_Witness ==
    /\ IsDepositCall
    /\ last.input.doc = JObj(ValidDoc(IbanA, Eur100_50).items
                             \o << <<"amount", JStr(Eur250_00)>> >>)
    /\ last.out.err = "Duplicate key found in JSON"

\* C14 as stated: a syntactically valid document in which no object repeats
\* one of its own keys is loaded, its members in document order, also when
\* two different objects have a key of the same name.
C14_RefusesOwnRepeatOnly ==
    (IsLoadCall /\ last.doc.type # "invalid" /\ ~RepeatsOwnKey(last.doc))
    => last.out.ok /\ last.out.val = last.doc

\* the outcome of check k of deposit_into_account on the input, taken on its
\* own: 1 file found, 2 well-formed, 3 not empty, 4 required keys, 5 alg and
\* typ, 6 IBAN, 7 amount, 8 deposit date
CheckResult(input, k) ==
    LET data == input.doc
        has(key) == data.type = "object" /\ key \in Keys(data)
        loaded == input.exists /\ load_json_with_duplicate_check(data).ok
    IN  CASE k = 1 ->
               IF input.exists THEN Ok(TRUE) ELSE Raise("The data file is not found")
          [] k = 2 /\ input.exists ->
               IF load_json_with_duplicate_check(data).exc = "JSONDecodeError"
               THEN Raise("The file is not in JSON format")
               ELSE load_json_with_duplicate_check(data)
          [] k = 3 /\ loaded ->
               IF Truthy(data) THEN Ok(TRUE) ELSE Raise("Empty JSON data")
          [] k = 4 /\ loaded ->
               IF data.type # "object" THEN Throw("AttributeError")
               ELSE IF required_keys \subseteq Keys(data) THEN Ok(TRUE)
               ELSE Raise("Missing required keys")
          [] k = 5 /\ loaded ->
               IF \/ has("alg") /\ Get(data, "alg") # JStr(Sha256Tag)
                  \/ has("typ") /\ Get(data, "typ") # JStr(DepositTag)
               THEN Raise("Invalid alg or typ value") ELSE Ok(TRUE)
          [] k = 6 /\ loaded /\ has("iban") ->
               IF validate_iban(Get(data, "iban")) = Ok(FALSE)
               THEN Raise("Invalid IBAN format")
               ELSE validate_iban(Get(data, "iban"))
          [] k = 7 /\ loaded /\ has("amount") -> validate_amount(Get(data, "amount"))
          [] k = 8 /\ loaded /\ has("deposit_date") ->
               validate_date(Get(data, "deposit_date"))
          [] OTHER -> Ok(TRUE)

FailedChecks(input) == {k \in 1..8 : ~CheckResult(input, k).ok}

FirstOf(S) == CHOOSE k \in S : \A j \in S : k <= j

\* C15: deposit_into_account fails exactly when some check fails on the
\* input, and with the error of the first failing check in the order file
\* found, well-formed, not empty, required keys, alg and typ, IBAN, amount,
\* deposit date, whatever later checks would fail too; it writes no file.
C15_FirstFailingCheck ==
    IsDepositCall
    => LET failed == FailedChecks(last.input)
       IN  IF failed = {} THEN last.out.ok
           ELSE /\ ~last.out.ok
                /\ last.out.exc = CheckResult(last.input, FirstOf(failed)).exc
                /\ last.out.err = CheckResult(last.input, FirstOf(failed)).err
                /\ deposit_files = last.before

\* an input with an invalid IBAN and an invalid amount reported the IBAN
C15_Witness ==
    /\ IsDepositCall
    /\ FailedChecks(last.input) = {6, 7}
    /\ last.out.err = "Invalid IBAN format"

\* the outcome of validator k of the constructor on its argument, taken on
\* its own: 1 from-IBAN, 2 to-IBAN, 3 transfer type, 4 concept, 5 date,
\* 6 amount
FieldResult(a, current, k) ==
    CASE k = 1 -> TransferRequest_validate_iban(a.from_iban)
      [] k = 2 -> TransferRequest_validate_iban(a.to_iban)
      [] k = 3 -> validate_transfer_type(a.transfer_type)
      [] k = 4 -> validate_concept(a.concept)
      [] k = 5 -> TransferRequest_validate_date(a.date, current)
      [] k = 6 -> TransferRequest_validate_amount(a.amount)

InvalidFields(a, current) == {k \in 1..6 : ~FieldResult(a, current, k).ok}

\* C16: a request with invalid fields fails with the error of the first
\* invalid field in the order from-IBAN, to-IBAN, transfer type, concept,
\* date, amount, whatever later fields are invalid too; no record is built
\* and the ledger is neither read nor written.
C16_FirstInvalidField ==
    IsTransferCall
    => LET invalid == InvalidFields(last.args, last.today)
       IN  invalid # {}
           => /\ ~last.out.ok
              /\ last.out.exc = FieldResult(last.args, last.today, FirstOf(invalid)).exc
              /\ last.out.err = FieldResult(last.args, last.today, FirstOf(invalid)).err
              /\ last.out.ret = <<>>
              /\ last.out.io = <<>>
              /\ transfers_json = last.before
              /\ TransferRequest_init(last.args, last.today, last.now).val = <<>>

\* a request invalid in its transfer type, its date and its amount reported
\* the transfer type, with a record in the ledger
C16_Witness ==
    /\ IsTransferCall
    /\ InvalidFields(last.args, last.today) = {3, 5, 6}
    /\ last.out.err = FieldResult(last.args, last.today, 3).err
    /\ Len(Recs) = 1

IsBalanceCall == last.op = "calculate_balance"

\* the entries of the ledger, in order
Entries == [i \in 1..Len(transactions_json.doc.items) |->
               transactions_json.doc.items[i][2]]

\* the entry is a mapping with an IBAN and an amount, its IBAN the text x
Matches(entry, x) ==
    /\ entry.type = "object"
    /\ \E i \in 1..Len(entry.items) : entry.items[i][1] = "IBAN"
    /\ \E i \in 1..Len(entry.items) : entry.items[i][1] = "amount"
    /\ \A i \in 1..Len(entry.items) :
          ( /\ entry.items[i][1] = "IBAN"
            /\ \A j \in (i + 1)..Len(entry.items) : entry.items[j][1] # "IBAN" )
          => entry.items[i][2] = JStr(x)

\* the amount the entry holds: the value of its last "amount" member
HeldAmount(entry) ==
    entry.items[CHOOSE i \in 1..Len(entry.items) :
                  /\ entry.items[i][1] = "amount"
                  /\ \A j \in (i + 1)..Len(entry.items) :
                        entry.items[j][1] # "amount"][2]

\* the number an amount text writes, in thousandths
Milli(text) ==
    (CHOOSE t \in AmountTexts_milli : t[1] = text)[2]

RECURSIVE SumMilli(_, _)
\* the sum, in thousandths, of the amounts of the entries that match x
SumMilli(entries, x) ==
    IF entries = <<>> THEN 0
    ELSE (IF Matches(Head(entries), x) THEN Milli(HeldAmount(Head(entries)).text)
          ELSE 0)
         + SumMilli(Tail(entries), x)

\* the float as a number of thousandths
AsMilli(f) == f.num * Pow10(f.exp + 3)

ReadsLedger ==
    /\ IsBalanceCall
    /\ last.iban_number.type = "string"
    /\ Len(last.iban_number.text) >= 24
    /\ SubSeq(last.iban_number.text, 1, 2) = <<"E", "S">>
    /\ \A i \in 3..24 : last.iban_number.text[i] \in Digits
    /\ transactions_json.exists
    /\ transactions_json.doc.type = "array"

NotFoundError == "IBAN not found in transactions file"

\* C18: on a ledger that parses as a list, calculate_balance for a valid
\* IBAN x fails with the IBAN-not-found error exactly when no entry with an
\* IBAN and an amount has IBAN x, and then writes nothing; a ledger whose
\* only entry for x has amount "0" is a success with balance 0.
C18_NotFoundIffNoMatch ==
    ReadsLedger
    => LET x == last.iban_number.text
       IN  /\ (~last.out.ok /\ last.out.exc = AME /\ last.out.err = NotFoundError)
               <=> \A i \in 1..Len(Entries) : ~Matches(Entries[i], x)
           /\ last.out.err = NotFoundError => balance_files = last.before
           /\ Entries = <<Entry(x, JStr(<<"0">>))>>
               => /\ last.out.ok
                  /\ balance_files[<<"balance_", x, ".json">>].balance = Finite(0, 0)

\* the only entry of the IBAN has amount "0" and the call stored balance 0
C18_Witness ==
    /\ ReadsLedger
    /\ Entries = <<Entry(IbanA, JStr(<<"0">>))>>
    /\ last.iban_number = JStr(IbanA)
    /\ last.out.ok
    /\ balance_files[<<"balance_", IbanA, ".json">>].balance = Finite(0, 0)

\* entry i matches x and its amount is a text that is no number, and no
\* matching entry before it has an amount that is no text
BadAmountAt(i, x) ==
    /\ Matches(Entries[i], x)
    /\ HeldAmount(Entries[i]).type = "string"
    /\ HeldAmount(Entries[i]).text \in BadAmountTexts
    /\ \A j \in 1..(i - 1) :
          Matches(Entries[j], x) => HeldAmount(Entries[j]).type = "string"

\* C19: when an entry matching the IBAN has an amount text that is no
\* number, calculate_balance fails with the invalid-amount error and writes
\* nothing, wherever the entry is and whatever valid entries match too.
C19_BadAmountAborts ==
    (ReadsLedger /\ \E i \in 1..Len(Entries) : BadAmountAt(i, last.iban_number.text))
    => /\ ~last.out.ok
       /\ last.out.exc = AME
       /\ last.out.err = "Invalid amount format in transactions file"
       /\ balance_files = last.before

\* the bad amount came last, after two valid entries of the same IBAN
C19_Witness ==
    /\ ReadsLedger
    /\ last.iban_number = JStr(IbanA)
    /\ Entries = <<Entry(IbanA, JStr(Text_100)), Entry(IbanA, JStr(Text_100)),
                   Entry(IbanA, JStr(Text_abc))>>
    /\ last.out.err = "Invalid amount format in transactions file"

\* C20 as stated: when the parsed ledger is not a list, or is a list with an
\* element that is not a mapping, calculate_balance fails with the
\* invalid-format error.
C20_NotAllMappingsRefused ==
    ( /\ IsBalanceCall
      /\ AccountManager_validate_iban(last.iban_number)
      /\ transactions_json.exists
      /\ transactions_json.doc.type # "invalid"
      /\ \/ transactions_json.doc.type # "array"
         \/ \E i \in 1..Len(Entries) : Entries[i].type # "object" )
    => /\ ~last.out.ok
       /\ last.out.exc = AME
       /\ last.out.err = "Invalid transactions data format"

\* the arguments of the last transfer_request pass every validator
ValidTransferArgs == TransferRequest_init(last.args, last.today, last.now).ok

\* C21: a valid transfer_request on a ledger file that is missing or does not
\* parse succeeds and leaves a ledger of exactly one record, the new one.
C21_RecoversEmptyLedger ==
    ( /\ IsTransferCall
      /\ last.before.kind \in {"missing", "unparsable"}
      /\ ValidTransferArgs )
    => /\ last.out.ok
       /\ transfers_json.kind = "list"
       /\ Len(Recs) = 1
       /\ StoresArgs(Recs[1], last.args, last.now)
       /\ Recs[1].transfer_code = last.out.ret

\* a request accepted on a file that did not parse
C21_Witness ==
    /\ IsTransferCall
    /\ last.before = Unparsable
    /\ last.out.ok
    /\ Len(Recs) = 1

\* the fields of a stored record other than its signature
TransferFields(r) ==
    <<r.from_iban, r.to_iban, r.transfer_type, r.transfer_amount,
      r.transfer_concept, r.transfer_date, r.time_stamp>>

DepositFields(r) == <<r.alg, r.type, r.to_iban, r.deposit_amount, r.deposit_date>>

\* the number of fields in which two records differ
Differing(f, g) == Cardinality({i \in 1..Len(f) : f[i] # g[i]})

StoredTransfers == {Recs[i] : i \in 1..Len(Recs)}

\* the deposit records on disk, and those the last deposit found there
StoredDeposits ==
    {deposit_files[n] : n \in DOMAIN deposit_files}
    \cup (IF IsDepositCall THEN {last.before[n] : n \in DOMAIN last.before} ELSE {})

\* the file the last accepted deposit wrote
LastDepositFile ==
    deposit_files[output_file(Get(last.input.doc, "iban").text, last.now)]

\* C22: the signature of a deposit or transfer record depends on its fields
\* only: the one returned is the one stored, records with equal fields have
\* equal signatures, and records that differ in one field have different ones.
C22_SignatureOfFields ==
    /\ (IsTransferCall /\ last.out.ok)
       => Recs[Len(Recs)].transfer_code = last.out.ret
    /\ (IsDepositCall /\ last.out.ok)
       => LastDepositFile.deposit_signature = last.out.ret
    /\ \A r \in StoredTransfers : \A s \in StoredTransfers :
          /\ Differing(TransferFields(r), TransferFields(s)) = 0
             => r.transfer_code = s.transfer_code
          /\ Differing(TransferFields(r), TransferFields(s)) = 1
             => r.transfer_code # s.transfer_code
    /\ \A r \in StoredDeposits : \A s \in StoredDeposits :
          /\ Differing(DepositFields(r), DepositFields(s)) = 0
             => r.deposit_signature = s.deposit_signature
          /\ Differing(DepositFields(r), DepositFields(s)) = 1
             => r.deposit_signature # s.deposit_signature

\* two transfer records that differ in the amount only, and two deposit
\* records that differ in the timestamp only
C22_Witness ==
    /\ \E r \in StoredTransfers : \E s \in StoredTransfers :
          /\ Differing(TransferFields(r), TransferFields(s)) = 1
          /\ r.transfer_amount # s.transfer_amount
    /\ \E r \in StoredDeposits : \E s \in StoredDeposits :
          /\ Differing(DepositFields(r), DepositFields(s)) = 1
          /\ r.deposit_date # s.deposit_date

\* the last input with its deposit_date replaced by d
WithDate(d) == File(WithValue(last.input.doc, "deposit_date", JStr(d)))

\* C23: the timestamp of a deposit record is the clock reading of the call;
\* a run at the same instant on the same input with any other valid
\* deposit_date writes the same files and returns the same signature.
C23_DateNotInRecord ==
    (IsDepositCall /\ last.out.ok)
    => /\ output_file(Get(last.input.doc, "iban").text, last.now)
          \in DOMAIN deposit_files
       /\ LastDepositFile.deposit_date = last.now
       /\ \A d \in ValidDates :
             /\ deposit_into_account(WithDate(d), last.now, last.before).ok
             /\ deposit_into_account(WithDate(d), last.now, last.before).files
                = deposit_files
             /\ deposit_into_account(WithDate(d), last.now, last.before).ret
                = last.out.ret

\* an accepted deposit dated IsoDateLater rewrites, at the same instant, the
\* record that an earlier deposit left
C23_Witness ==
    /\ IsDepositCall
    /\ last.out.ok
    /\ Get(last.input.doc, "deposit_date") = JStr(IsoDateLater)
    /\ last.before # NoFiles
    /\ deposit_files = last.before

\* no two elements of a list of records have the same transfer_code
DistinctCodes(recs) ==
    \A i \in 1..Len(recs) : \A j \in 1..Len(recs) :
        i # j => recs[i].transfer_code # recs[j].transfer_code

\* C24: with callers interleaved at their load, check and write steps, every
\* content of the ledger, and every list a caller holds to write, has
\* pairwise distinct transfer codes.
C24_UniqueCodesInterleaved ==
    /\ DistinctCodes(transfers_json.recs)
    /\ \A p \in Callers : DistinctCodes(call[p].transfers)

\* two callers whose records have the same code both returned it, and the
\* ledger keeps one record
C24_Witness ==
    /\ \A p \in Callers : call[p].pc = "returned"
    /\ call["c1"].transfer = call["c2"].transfer
    /\ call["c1"].out.ret = call["c2"].out.ret
    /\ transfers_json.kind = "list"
    /\ Len(transfers_json.recs) = 1

\* C25: whatever the ledger file holds, a transfer_request with valid fields
\* returns the code or fails with the typed duplicate-transfer error; it
\* never fails with an exception of another class.
C25_TypedOutcomesOnly ==
    (IsTransferCall /\ ValidTransferArgs)
    => \/ last.out.ok /\ Recs[Len(Recs)].transfer_code = last.out.ret
       \/ ~last.out.ok /\ last.out.exc = AME /\ last.out.err = DuplicateError

\* C26: on an existing input file whose content is JSON, deposit_into_account
\* returns a signature or fails with the typed exception.
C26_TypedDepositFailures ==
    (IsDepositCall /\ last.input.exists /\ last.input.doc.type # "invalid")
    => last.out.ok \/ last.out.exc = AME

\* C27: on a transactions file that holds a JSON list, calculate_balance with
\* an IBAN that passes the check succeeds or fails with the typed exception.
C27_TypedBalanceFailures ==
    ( /\ IsBalanceCall
      /\ transactions_json.exists
      /\ transactions_json.doc.type = "array"
      /\ AccountManager_validate_iban(last.iban_number) )
    => last.out.ok \/ last.out.exc = AME

\* what calculate_balance gives for the IBAN of the call just made, at the
\* same clock reading, on the ledger as it was before the step and with no
\* snapshot, deposit or transfer on disk
FreshBalance == calculate_balance(last'.iban_number, last'.now, transactions_json, NoFiles)

\* C28: no operation changes the transaction ledger, and a balance call gives
\* the outcome and the snapshot it would give with no deposit, transfer or
\* earlier snapshot on disk.
C28_DisjointStores ==
    [][ /\ transactions_json' = transactions_json
        /\ last'.op = "calculate_balance"
           => /\ last'.out.ok = FreshBalance.ok
              /\ last'.out.exc = FreshBalance.exc
              /\ last'.out.err = FreshBalance.err
              /\ last'.out.ok
                 => balance_files'[balance_file(last'.iban_number)]
                    = FreshBalance.files[balance_file(last'.iban_number)] ]_vars

\* a balance computed after an accepted deposit, an accepted transfer and an
\* earlier balance computation for the same IBAN
C28_Witness ==
    /\ IsBalanceCall
    /\ last.out.ok
    /\ accepted > 0
    /\ Len(Recs) > 0
    /\ balance_file(last.iban_number) \in DOMAIN last.before

=============================================================================
